---- MODULE Spec2Model ----
(***************************************************************************)
(* Custom tool subsystem of talkcody: the permission store and the tool    *)
(* adapter's execute wrapper, the module resolver with its process-wide    *)
(* cache, the playground resolver, and the definition loader.              *)
(*                                                                         *)
(* Strings that the code only compares for equality are TLA+ strings.      *)
(* Strings the code takes apart (paths, cache keys, prefixes) are          *)
(* sequences of tokens, so that join, normalize and startsWith are         *)
(* computed and not assumed.                                               *)
(***************************************************************************)
EXTENDS Integers, Sequences, FiniteSets, TLC

VARIABLES
    grants,     \* custom-tool-permission-store.ts: state.grants (Map toolName -> grant)
    clock,      \* the last value Date.now() returned
    lastOp,     \* history: per tool, the most recent grant/revoke call on it
    execPc,     \* adaptCustomTool.execute: position of the wrapper invocation
    execDef,    \* the definition the running wrapper was built from
    checkRes,   \* the last PermissionCheckResult returned, with its arguments
    moduleCache,    \* import-map.ts: moduleCache (Map key -> module)
    moduleRegistry, \* import-map.ts: moduleRegistry (alias -> module)
    files,          \* the helper files that exist on disk (absolute paths)
    loads,          \* how many modules loadAndCompileFile has instantiated
    call,           \* per caller, its resolveCustomToolModule invocation
    playgroundModuleCache,  \* import-map.ts: playgroundModuleCache
    playgroundResolvers,    \* import-map.ts: playgroundResolvers (id -> resolver)
    held,           \* the resolver closures createPlaygroundModuleResolver returned
    pgCall,         \* the invocation of a playground resolver in progress
    pgOwner,        \* history: per playground cache key, the playground that wrote it
    ld,             \* loadCustomTools: the position of the running load pass
    results,        \* loadCustomTools: the results array of the pass
    ran,            \* the last call of a loaded definition's execute function
    swcReady,       \* custom-tool-compiler.ts: the memoized initialization promise
    swcInits,       \* history: how many times swc.default has been called
    compiling,      \* per caller, the compileCustomTool invocation in progress
    settled,        \* how the last call of an adapted tool's execute wrapper ended
    rows,           \* recent_files: the rows of the table
    nextId,         \* recent_files: the id the next inserted row gets
    lastNow,        \* recent-files-service.ts: the last value Date.now() returned
    adding,         \* per caller, the addRecentFile invocation in progress
    adds,           \* history: how many addRecentFile calls have started
    got,            \* the last answer of getRecentFiles
    clearing,       \* the clearRecentFiles invocation in progress
    refreshed,      \* refreshCustomTools: the load results it was given and its map
    rendered,       \* the last result an adapted tool's result renderer was given, and its view
    evaluating,     \* the wrapped modules whose __load is running, outermost first
    required,       \* history: the requires the modules of the running tool evaluated
    fetching,       \* the call of a playground's simpleFetch in progress
    edits           \* per helper file, how often its text was rewritten and when

permVars == <<grants, clock, lastOp, execPc, execDef, checkRes>>

resolveVars == <<moduleCache, moduleRegistry, files, loads, call>>

pgVars == <<playgroundModuleCache, playgroundResolvers, held, pgCall, pgOwner>>

loadVars == <<ld, results, ran>>

compileVars == <<swcReady, swcInits, compiling>>

recentVars == <<rows, nextId, lastNow, adding, adds, got, clearing>>

adaptVars == <<refreshed, rendered>>

nestVars == <<evaluating, required>>

fetchVars == <<fetching>>

diskVars == <<edits>>

lateVars == <<adaptVars, nestVars, fetchVars, diskVars>>

extVars == <<compileVars, settled, recentVars, lateVars>>

nonPermVars == <<resolveVars, pgVars, loadVars, extVars>>

nonResolveVars == <<permVars, pgVars, loadVars, extVars>>

vars == <<grants, clock, lastOp, execPc, execDef, checkRes,
          moduleCache, moduleRegistry, files, loads, call,
          playgroundModuleCache, playgroundResolvers, held, pgCall, pgOwner,
          ld, results, ran, swcReady, swcInits, compiling, settled,
          rows, nextId, lastNow, adding, adds, got, clearing, refreshed,
          rendered, evaluating, required, fetching, edits>>

(***************************************************************************)
(* Bounds                                                                  *)
(***************************************************************************)
MaxPermLen == 1
MaxRequestLen == 2
MaxClock == 1
MaxLoads == 2
MaxResolvers == 2
MaxImports == 1

\* rewrites of a helper file's text the model follows
MaxEdits == 1

\* calls of the transpiler's initialization routine the model follows
MaxInits == 2

\* addRecentFile calls the model follows
MaxAdds == 2

\* MAX_RECENT_FILES
MaxRecentFiles == 50

(***************************************************************************)
(* types/custom-tool.ts                                                    *)
(***************************************************************************)
CustomToolPermission == {"fs", "net", "command"}

ToolNames == {"t", "u"}

Undefined == "undefined"

Range(s) == {s[i] : i \in 1..Len(s)}

NoDup(s) == \A i, j \in 1..Len(s) : i # j => s[i] # s[j]

PermListsUpTo(len) ==
    {s \in UNION {[1..n -> CustomToolPermission] : n \in 0..len} : NoDup(s)}

\* permission arrays a definition can declare or a caller can grant
PermLists == PermListsUpTo(MaxPermLen)

\* permission arrays a caller can ask about
RequestLists == PermListsUpTo(MaxRequestLen)

(***************************************************************************)
(* stores/custom-tool-permission-store.ts                                  *)
(***************************************************************************)
MapSet(m, k, v) == [x \in (DOMAIN m) \cup {k} |-> IF x = k THEN v ELSE m[x]]

MapDelete(m, k) == [x \in (DOMAIN m) \ {k} |-> m[x]]

EmptyMap == [x \in {} |-> Undefined]

GrantPermissionUnion(g, toolName, permissions, now) ==
    MapSet(g, toolName,
           [toolName |-> toolName,
            permissions |->
                IF toolName \in DOMAIN g
                THEN g[toolName].permissions \o
                     SelectSeq(permissions,
                               LAMBDA p : p \notin Range(g[toolName].permissions))
                ELSE permissions,
            grantedAt |-> now])

GrantPermissionAlone(g, toolName, permissions, now) ==
    MapSet(EmptyMap, toolName,
           [toolName |-> toolName, permissions |-> permissions, grantedAt |-> now])

GrantPermission(g, toolName, permissions, now) ==
    MapSet(g, toolName,
           [toolName |-> toolName, permissions |-> permissions, grantedAt |-> now])

RevokePermissionKeepsRecord(g, toolName) ==
    IF toolName \in DOMAIN g
    THEN MapSet(g, toolName, [g[toolName] EXCEPT !.permissions = <<>>])
    ELSE g

RevokePermission(g, toolName) == MapDelete(g, toolName)

HasGrant(g, toolName) == toolName \in DOMAIN g

GetGrant(g, toolName) == IF toolName \in DOMAIN g THEN g[toolName] ELSE Undefined

(***************************************************************************)
(* services/tools/custom-tool-permission.ts                                *)
(***************************************************************************)
CheckIgnoresAbsentGrant(g, toolName, requested) ==
    LET granted == IF HasGrant(g, toolName) THEN Range(g[toolName].permissions) ELSE {}
        missing == SelectSeq(requested, LAMBDA p : p \notin granted)
    IN  IF HasGrant(g, toolName)
        THEN [allowed |-> missing = <<>>, missing |-> missing]
        ELSE [allowed |-> TRUE, missing |-> <<>>]

CheckCustomToolPermissions(g, toolName, requested) ==
    IF Len(requested) = 0
    THEN [allowed |-> TRUE, missing |-> <<>>]
    ELSE IF ~HasGrant(g, toolName)
    THEN [allowed |-> FALSE, missing |-> requested]
    ELSE LET grant == GetGrant(g, toolName)
             missing == SelectSeq(requested,
                                  LAMBDA p : p \notin Range(grant.permissions))
         IN  IF Len(missing) > 0
             THEN [allowed |-> FALSE, missing |-> missing]
             ELSE [allowed |-> TRUE, missing |-> <<>>]

\* history bookkeeping: what the most recent grant/revoke call on a tool was
\* (dropped: the call took away a permission the tool held)
NoOp == [op |-> "none", permissions |-> <<>>, dropped |-> FALSE]

GrantOp(g, toolName, permissions) ==
    [op |-> "grant", permissions |-> permissions,
     dropped |-> /\ HasGrant(g, toolName)
                 /\ ~(Range(g[toolName].permissions) \subseteq Range(permissions))]

RevokeOp(g, toolName) ==
    [op |-> "revoke", permissions |-> <<>>, dropped |-> HasGrant(g, toolName)]

NoCheck == [toolName |-> Undefined]

NoDef == [name |-> Undefined]

\* Date.now(): never goes back
Now(t) == t \in clock..MaxClock

Idle == execPc = "idle"

\* store.grantPermission(toolName, permissions), called directly
Grant(toolName, permissions, now) ==
    /\ Idle
    /\ Now(now)
    /\ grants' = GrantPermission(grants, toolName, permissions, now)
    /\ clock' = now
    /\ lastOp' = [lastOp EXCEPT ![toolName] = GrantOp(grants, toolName, permissions)]
    /\ checkRes' = NoCheck
    /\ UNCHANGED <<execPc, execDef>>
    /\ UNCHANGED nonPermVars

\* revokeCustomToolPermissions(toolName) -> store.revokePermission(toolName)
Revoke(toolName) ==
    /\ Idle
    /\ grants' = RevokePermission(grants, toolName)
    /\ lastOp' = [lastOp EXCEPT ![toolName] = RevokeOp(grants, toolName)]
    /\ checkRes' = NoCheck
    /\ UNCHANGED <<clock, execPc, execDef>>
    /\ UNCHANGED nonPermVars

\* checkCustomToolPermissions(toolName, requested)
Check(toolName, requested) ==
    /\ Idle
    /\ checkRes' = [toolName |-> toolName, requested |-> requested,
                    before |-> grants,
                    result |-> CheckCustomToolPermissions(grants, toolName, requested)]
    /\ UNCHANGED <<grants, clock, lastOp, execPc, execDef>>
    /\ UNCHANGED nonPermVars

(***************************************************************************)
(* services/tools/custom-tool-registry.tsx: adaptCustomTool(...).execute   *)
(***************************************************************************)
\* a definition without a 'permissions' field carries this in its place
NoPermissions == <<Undefined>>

Definitions ==
    [name : ToolNames, permissions : PermLists \cup {NoPermissions}]

\* definition.permissions ?? []
Requested(definition) ==
    IF definition.permissions = NoPermissions THEN <<>> ELSE definition.permissions

EnsureNever(requested) == FALSE

EnsureNeeded(requested) == Len(requested) > 0

\* the params and the context a caller hands to the wrapper
ExecuteArguments ==
    {[params |-> "p1", context |-> "k1"], [params |-> "p2", context |-> "k2"]}

NoArguments == [params |-> Undefined, context |-> Undefined]

DeniedUnlessGranted(g, definition) ==
    IF CheckCustomToolPermissions(g, definition.name, Requested(definition)).allowed
    THEN "call"
    ELSE "denied"

\* where the wrapper stands after the grant: no statement before the call of
\* definition.execute returns or throws, whatever the store g held on entry
AfterEnsure(g, definition) == "call"

\* definition.execute(params, context): the arguments of the call
PassedArguments(params, context) == [params |-> params, context |-> context]

\* the wrapper up to (not including) the call of definition.execute
ExecuteEnter(definition, now, params, context) ==
    /\ Idle
    /\ Now(now)
    /\ LET requested == Requested(definition)
       IN  IF EnsureNeeded(requested)
           THEN /\ grants' = GrantPermission(grants, definition.name, requested, now)
                /\ clock' = now
                /\ lastOp' = [lastOp EXCEPT
                                ![definition.name] =
                                    GrantOp(grants, definition.name, requested)]
           ELSE /\ now = clock
                /\ UNCHANGED <<grants, clock, lastOp>>
    /\ execPc' = AfterEnsure(grants, definition)
    /\ execDef' = [name |-> definition.name, permissions |-> definition.permissions,
                   params |-> params, context |-> context,
                   calls |-> 0, passed |-> NoArguments]
    /\ checkRes' = NoCheck
    /\ UNCHANGED nonPermVars

\* definition.execute(params, context) is called and suspends
ExecuteCall ==
    /\ execPc = "call"
    /\ execPc' = "running"
    /\ execDef' = [execDef EXCEPT
                     !.calls = @ + 1,
                     !.passed = PassedArguments(execDef.params, execDef.context)]
    /\ UNCHANGED <<grants, clock, lastOp, checkRes>>
    /\ UNCHANGED nonPermVars

\* the promise of definition.execute settles; the wrapper settles the same way
ExecuteSettleStep ==
    /\ execPc = "running"
    /\ execPc' = "idle"
    /\ execDef' = NoDef
    /\ UNCHANGED <<grants, clock, lastOp, checkRes>>

ExecuteSettle ==
    /\ ExecuteSettleStep
    /\ UNCHANGED nonPermVars

\* how the promise of definition.execute can settle
ExecuteOutcomes == [kind : {"fulfilled", "rejected"}, value : {"x", "y"}]

NoSettled ==
    [name |-> Undefined, requested |-> <<>>,
     definition |-> [kind |-> "none", value |-> ""],
     wrapper |-> [kind |-> "none", value |-> ""]]

WrapperCatches(outcome) ==
    IF outcome.kind = "rejected" THEN [kind |-> "fulfilled", value |-> "error"] ELSE outcome

\* return await definition.execute(params, context): the wrapper's promise
\* settles as the definition's does
WrapperOutcome(outcome) == outcome

\* the promise of definition.execute settles with this outcome
ExecuteSettled(outcome) ==
    /\ ExecuteSettleStep
    /\ settled' = [name |-> execDef.name, requested |-> Requested(execDef),
                   definition |-> outcome, wrapper |-> WrapperOutcome(outcome)]
    /\ UNCHANGED <<resolveVars, pgVars, loadVars, compileVars, recentVars, lateVars>>

\* other callers run while definition.execute is suspended
GrantDuringExecute(toolName, permissions, now) ==
    /\ execPc = "running"
    /\ Now(now)
    /\ grants' = GrantPermission(grants, toolName, permissions, now)
    /\ clock' = now
    /\ lastOp' = [lastOp EXCEPT ![toolName] = GrantOp(grants, toolName, permissions)]
    /\ UNCHANGED <<execPc, execDef, checkRes>>
    /\ UNCHANGED nonPermVars

RevokeDuringExecute(toolName) ==
    /\ execPc = "running"
    /\ grants' = RevokePermission(grants, toolName)
    /\ lastOp' = [lastOp EXCEPT ![toolName] = RevokeOp(grants, toolName)]
    /\ UNCHANGED <<clock, execPc, execDef, checkRes>>
    /\ UNCHANGED nonPermVars

(***************************************************************************)
(* lib/custom-tool-sdk/import-map.ts: the module resolver                  *)
(*                                                                         *)
(* A specifier is a string; Segments gives its parts between '/'.  A path  *)
(* is absolute and is the sequence of its segments.  A cache key is the    *)
(* sequence of the segments of its text, so the key of a file is           *)
(* <<"file:">> followed by the path ('file:' + '/d1/helper').              *)
(***************************************************************************)
BareSpecifiers == {"react", "@/lib/logger", "lodash"}

RelativeSpecifiers == {"./helper", "../helper"}

Specifiers == BareSpecifiers \cup RelativeSpecifiers

\* specifier.split('/')
Segments(specifier) ==
    CASE specifier = "react" -> <<"react">>
      [] specifier = "lodash" -> <<"lodash">>
      [] specifier = "@/lib/logger" -> <<"@", "lib", "logger">>
      [] specifier = "@/lib/tauri-fetch" -> <<"@", "lib", "tauri-fetch">>
      [] specifier = "./helper" -> <<".", "helper">>
      [] specifier = "../helper" -> <<"..", "helper">>
      [] specifier = "./sub/x" -> <<".", "sub", "x">>

\* the directories tool files and helpers live in
BaseDirs == {<<"d1">>, <<"d1", "sub">>}

\* resolveCustomToolModule(alias) called without a base directory
NoBaseDir == <<>>

\* the values a resolution can produce
Module(kind, of, id) == [kind |-> kind, of |-> of, id |-> id]

NotFoundRaised == [kind |-> "error", of |-> <<"Custom tool import not found">>, id |-> 0]

\* return undefined
UndefinedModule == Module("undefined", <<>>, 0)

Thrown(message) == Module("error", <<message>>, 0)

\* modules the host hands to registerCustomToolModule, and the names it
\* registers them under
ModuleRefs == {"m1", "m2"}

RegisteredAliases == {"react", "lodash"}

Registered(ref) == Module("registered", <<ref>>, 0)

\* builtinLoaders
BuiltinLoaders == {"react", "react/jsx-runtime", "recharts", "zod"}

\* the keys of import.meta.glob over the application's own source tree:
\* a path under /src and the extension (or '/index' and the extension)
InternalModuleLoaderKeys ==
    {<<"src", "lib", "logger", ".ts">>,
     <<"src", "lib", "tauri-fetch", ".ts">>,
     <<"src", "lib", "utils", "/index.ts">>}

InternalSuffixes ==
    <<"", ".ts", ".tsx", ".js", ".jsx",
      "/index.ts", "/index.tsx", "/index.js", "/index.jsx">>

StartsWithSegment(specifier, first) ==
    /\ Len(Segments(specifier)) > 1
    /\ Segments(specifier)[1] = first

\* buildInternalCandidates
BuildInternalCandidates(specifier) ==
    IF ~StartsWithSegment(specifier, "@")
    THEN <<>>
    ELSE LET base == <<"src">> \o Tail(Segments(specifier))
         IN  [i \in 1..Len(InternalSuffixes) |-> base \o <<InternalSuffixes[i]>>]

\* loadInternalModule: the first candidate that has a loader, if any
InternalLoaderIndex(specifier) ==
    LET candidates == BuildInternalCandidates(specifier)
        hits == {i \in 1..Len(candidates) : candidates[i] \in InternalModuleLoaderKeys}
    IN  IF hits = {} THEN 0 ELSE CHOOSE i \in hits : \A j \in hits : i <= j

InternalModule(specifier) ==
    Module("internal", BuildInternalCandidates(specifier)[InternalLoaderIndex(specifier)], 0)

IsRelative(alias) == StartsWithSegment(alias, ".") \/ StartsWithSegment(alias, "..")

\* path.normalize over segments: '.' is dropped, '..' removes the segment before it
RECURSIVE NormalizeFrom(_, _)
NormalizeFrom(done, rest) ==
    IF rest = <<>> THEN done
    ELSE IF Head(rest) = "." THEN NormalizeFrom(done, Tail(rest))
    ELSE IF Head(rest) = ".."
    THEN NormalizeFrom(IF done = <<>> THEN done ELSE SubSeq(done, 1, Len(done) - 1),
                       Tail(rest))
    ELSE NormalizeFrom(Append(done, Head(rest)), Tail(rest))

Normalize(path) == NormalizeFrom(<<>>, path)

\* resolveRelativePath: normalize(join(baseDir, specifier))
ResolveRelativePath(baseDir, specifier) == Normalize(baseDir \o Segments(specifier))

\* the helper files a relative import can reach
HelperPaths == {ResolveRelativePath(d, s) : d \in BaseDirs, s \in RelativeSpecifiers}

\* the key of an alias is its literal text
AliasKey(alias, resolvedPath) == Segments(alias)

FileKey(resolvedPath) == <<"file:">> \o resolvedPath

CacheHasNever(key) == FALSE

CacheHas(key) == key \in DOMAIN moduleCache

NoCall ==
    [pc |-> "idle", alias |-> "", baseDir |-> <<>>, path |-> <<>>,
     result |-> UndefinedModule, loaded |-> FALSE, overlap |-> FALSE,
     registered |-> FALSE]

\* invocations that can be in flight at once; the relative-import runs use two
Callers == {"r1", "r2", "r3"}

RelativeCallers == {"r1", "r2"}

Done(c, value) == [call[c] EXCEPT !.pc = "done", !.result = value]

\* history bookkeeping for a call that starts: does another call of the same
\* alias run at this moment
NewCall(c, alias, baseDir) ==
    [NoCall EXCEPT !.alias = alias, !.baseDir = baseDir,
                   !.overlap = \E o \in Callers \ {c} :
                                   /\ call[o].alias = alias
                                   /\ call[o].pc \notin {"idle", "done"}]

\* registerCustomToolModule(alias, moduleRef)
RegisterCustomToolModule(alias, ref) ==
    /\ moduleRegistry' = MapSet(moduleRegistry, alias, Registered(ref))
    /\ moduleCache' = MapSet(moduleCache, Segments(alias), Registered(ref))
    /\ call' = [c \in Callers |->
                   IF call[c].alias = alias
                   THEN [call[c] EXCEPT !.registered = TRUE]
                   ELSE call[c]]
    /\ UNCHANGED <<files, loads>>
    /\ UNCHANGED nonResolveVars

\* resolveCustomToolModule(alias, baseDir) up to its first suspension
ResolveStartStep(c, alias, baseDir) ==
    /\ call[c].pc = "idle"
    /\ LET new == NewCall(c, alias, baseDir)
           finish(value) == [new EXCEPT !.pc = "done", !.result = value]
       IN  IF CacheHas(AliasKey(alias, <<>>))
           THEN /\ call' = [call EXCEPT ![c] = finish(moduleCache[AliasKey(alias, <<>>)])]
                /\ UNCHANGED moduleCache
           ELSE IF IsRelative(alias)
           THEN /\ call' = [call EXCEPT
                              ![c] = IF baseDir = NoBaseDir
                                     THEN finish(Thrown("Relative import requires base directory"))
                                     ELSE [new EXCEPT !.pc = "path"]]
                /\ UNCHANGED moduleCache
           ELSE IF alias \in DOMAIN moduleRegistry
           THEN /\ moduleCache' = MapSet(moduleCache, Segments(alias), moduleRegistry[alias])
                /\ call' = [call EXCEPT ![c] = finish(moduleRegistry[alias])]
           ELSE IF alias \in BuiltinLoaders
           THEN /\ call' = [call EXCEPT ![c] = [new EXCEPT !.pc = "builtin", !.loaded = TRUE]]
                /\ UNCHANGED moduleCache
           ELSE IF InternalLoaderIndex(alias) # 0
           THEN /\ call' = [call EXCEPT ![c] = [new EXCEPT !.pc = "internal", !.loaded = TRUE]]
                /\ UNCHANGED moduleCache
           ELSE /\ call' = [call EXCEPT ![c] = finish(UndefinedModule)]
                /\ UNCHANGED moduleCache
    /\ UNCHANGED <<moduleRegistry, files, loads>>

ResolveStart(c, alias, baseDir) ==
    /\ ResolveStartStep(c, alias, baseDir)
    /\ UNCHANGED nonResolveVars

\* resolveRelativePath has returned: the file key is looked up
ResolvePath(c) ==
    /\ call[c].pc = "path"
    /\ LET resolvedPath == ResolveRelativePath(call[c].baseDir, call[c].alias)
       IN  call' = [call EXCEPT
                      ![c] = IF CacheHas(FileKey(resolvedPath))
                             THEN Done(c, moduleCache[FileKey(resolvedPath)])
                             ELSE [call[c] EXCEPT !.pc = "load", !.path = resolvedPath]]
    /\ UNCHANGED <<moduleCache, moduleRegistry, files, loads>>
    /\ UNCHANGED nonResolveVars

CachedWhateverSettled(cache, alias, resolvedPath, outcome) ==
    MapSet(MapSet(cache, FileKey(resolvedPath), outcome),
           AliasKey(alias, resolvedPath), outcome)

\* const module = await loadAndCompileFile(resolvedPath) and the two
\* moduleCache.set calls after it, which a rejection of the await skips
CachedAfterLoad(cache, alias, resolvedPath, outcome) ==
    IF outcome.kind = "error" THEN cache
    ELSE MapSet(MapSet(cache, FileKey(resolvedPath), outcome),
                AliasKey(alias, resolvedPath), outcome)

\* loadAndCompileFile(resolvedPath) has settled; 'compiles' is whether the
\* file's compilation and instantiation went through
ResolveLoaded(c, compiles) ==
    /\ call[c].pc = "load"
    /\ loads < MaxLoads
    /\ LET resolvedPath == call[c].path
           outcome == IF resolvedPath \notin files THEN Thrown("File not found")
                      ELSE IF ~compiles THEN Thrown("compile or import failed")
                      ELSE Module("file", resolvedPath, loads + 1)
       IN  /\ loads' = IF outcome.kind = "error" THEN loads ELSE loads + 1
           /\ moduleCache' = CachedAfterLoad(moduleCache, call[c].alias, resolvedPath, outcome)
           /\ call' = [call EXCEPT ![c] = Done(c, outcome)]
    /\ UNCHANGED <<moduleRegistry, files>>
    /\ UNCHANGED nonResolveVars

ResolveBuiltinNoCache(c) ==
    /\ call[c].pc = "builtin"
    /\ call' = [call EXCEPT ![c] = Done(c, Module("builtin", Segments(call[c].alias), 0))]
    /\ UNCHANGED <<moduleCache, moduleRegistry, files, loads>>

\* the built-in loader's import has settled
ResolveBuiltinStep(c) ==
    /\ call[c].pc = "builtin"
    /\ LET loaded == Module("builtin", Segments(call[c].alias), 0)
       IN  /\ moduleCache' = MapSet(moduleCache, Segments(call[c].alias), loaded)
           /\ call' = [call EXCEPT ![c] = Done(c, loaded)]
    /\ UNCHANGED <<moduleRegistry, files, loads>>

ResolveBuiltin(c) ==
    /\ ResolveBuiltinStep(c)
    /\ UNCHANGED nonResolveVars

\* loadInternalModule has settled
ResolveInternalStep(c) ==
    /\ call[c].pc = "internal"
    /\ LET internalModule == InternalModule(call[c].alias)
       IN  /\ moduleCache' = MapSet(moduleCache, Segments(call[c].alias), internalModule)
           /\ call' = [call EXCEPT ![c] = Done(c, internalModule)]
    /\ UNCHANGED <<moduleRegistry, files, loads>>

ResolveInternal(c) ==
    /\ ResolveInternalStep(c)
    /\ UNCHANGED nonResolveVars

\* the caller has taken the settled result
ResolveReturn(c) ==
    /\ call[c].pc = "done"
    /\ call' = [call EXCEPT ![c] = NoCall]
    /\ UNCHANGED <<moduleCache, moduleRegistry, files, loads>>
    /\ UNCHANGED nonResolveVars

\* the user adds or removes a helper file
WriteFile(path) ==
    /\ path \notin files
    /\ files' = files \cup {path}
    /\ UNCHANGED <<moduleCache, moduleRegistry, loads, call>>
    /\ UNCHANGED nonResolveVars

RemoveFile(path) ==
    /\ path \in files
    /\ files' = files \ {path}
    /\ UNCHANGED <<moduleCache, moduleRegistry, loads, call>>
    /\ UNCHANGED nonResolveVars

\* the helper file a tool file of the scanned directory imports as './helper'
RescanPaths == {ResolveRelativePath(<<"c", ".talkcody", "tools">>, "./helper")}

NoEdit == [version |-> 0, loads |-> 0]

\* the user rewrites the text of a helper file between two load passes; the
\* number of files loadAndCompileFile had loaded by then is kept with it
EditFile(path) ==
    /\ path \in files
    /\ ld.pc = "idle"
    /\ edits[path].version < MaxEdits
    /\ edits' = [edits EXCEPT ![path] = [version |-> @.version + 1, loads |-> loads]]
    /\ UNCHANGED <<permVars, resolveVars, pgVars, loadVars, compileVars, settled, recentVars,
                   adaptVars, nestVars, fetchVars>>

DiskInit == edits = [p \in RescanPaths |-> NoEdit]

ResolveInit ==
    /\ moduleCache = EmptyMap
    /\ moduleRegistry = EmptyMap
    /\ files = {}
    /\ loads = 0
    /\ call = [c \in Callers |-> NoCall]

(***************************************************************************)
(* lib/custom-tool-sdk/import-map.ts: playground module support            *)
(*                                                                         *)
(* A playground id is a string, kept as the sequence of its parts around   *)
(* each ':' (the ':' included), so 'a:b' is <<"a", ":", "b">>.  The cache  *)
(* key `${playgroundId}:${specifier}` is the id, a ':' and the specifier;  *)
(* the specifiers used here hold no ':'.                                   *)
(***************************************************************************)
PlaygroundIds == {<<"a">>, <<"b">>, <<"a", ":", "b">>}

PlaygroundSpecifiers == {"@/lib/tauri-fetch", "react", "lodash"}

\* the caller slot a playground resolver uses for resolveCustomToolModule
PgCaller == "r3"

PlaygroundPermissionSets == {{}, {"net"}}

\* what createPlaygroundModuleResolver closes over
Resolvers ==
    [playgroundId : PlaygroundIds, permissions : PlaygroundPermissionSets,
     mockFetch : BOOLEAN]

PgKey(playgroundId, specifier) == playgroundId \o <<":">> \o <<specifier>>

\* text.startsWith(prefix)
StartsWith(text, prefix) ==
    /\ Len(text) >= Len(prefix)
    /\ SubSeq(text, 1, Len(prefix)) = prefix

Restrict(m, keys) == [k \in keys |-> m[k]]

\* clearPlaygroundCache: the cache without the keys that start with the id and ':'
ClearPlaygroundCache(cache, playgroundId) ==
    Restrict(cache, {k \in DOMAIN cache : ~StartsWith(k, playgroundId \o <<":">>)})

NoPgCall ==
    [pc |-> "idle", resolver |-> [playgroundId |-> <<>>, permissions |-> {},
                                  mockFetch |-> FALSE],
     specifier |-> "", result |-> UndefinedModule]

PgDone(value) == [pgCall EXCEPT !.pc = "done", !.result = value]

PermissionDenied == Thrown("Permission denied: 'net' permission required")

\* the object resolveModuleWithPermissions builds around simpleFetch
FetchModule(mockFetch) ==
    Module(IF mockFetch THEN "mock-fetch" ELSE "timeout-fetch",
           <<"@/lib/tauri-fetch">>, 0)

\* createPlaygroundModuleResolver(options)
CreatePlaygroundModuleResolver(resolver) ==
    /\ Cardinality(held \cup {resolver}) <= MaxResolvers
    /\ held' = held \cup {resolver}
    /\ playgroundResolvers' = MapSet(playgroundResolvers, resolver.playgroundId, resolver)
    /\ UNCHANGED <<playgroundModuleCache, pgCall, pgOwner>>
    /\ UNCHANGED <<permVars, extVars, resolveVars, loadVars>>

\* the resolver's cache lookup: playgroundModuleCache.has(cacheKey)
PlaygroundCacheHas(key) == key \in DOMAIN playgroundModuleCache

\* resolver(specifier) up to its first suspension: the cache lookup, then
\* resolveModuleWithPermissions up to its first await
PlaygroundResolveStart(resolver, specifier) ==
    /\ pgCall.pc = "idle"
    /\ resolver \in held
    /\ LET cacheKey == PgKey(resolver.playgroundId, specifier)
           new == [NoPgCall EXCEPT !.resolver = resolver, !.specifier = specifier]
       IN  IF PlaygroundCacheHas(cacheKey)
           THEN /\ pgCall' = [new EXCEPT !.pc = "done",
                                         !.result = playgroundModuleCache[cacheKey]]
                /\ UNCHANGED resolveVars
           ELSE IF specifier = "@/lib/tauri-fetch"
           THEN /\ pgCall' =
                       IF "net" \notin resolver.permissions
                       THEN [new EXCEPT !.pc = "done", !.result = PermissionDenied]
                       ELSE [new EXCEPT !.pc = "import"]
                /\ UNCHANGED resolveVars
           ELSE /\ call[PgCaller].pc = "idle"
                /\ ResolveStartStep(PgCaller, specifier, NoBaseDir)
                /\ pgCall' = [new EXCEPT !.pc = "delegated"]
    /\ UNCHANGED <<playgroundModuleCache, playgroundResolvers, held, pgOwner>>
    /\ UNCHANGED <<permVars, extVars, loadVars>>

\* import('@/lib/tauri-fetch') has settled: the mock or the timeout wrapper
\* is built, cached and returned
PlaygroundFetchImported ==
    /\ pgCall.pc = "import"
    /\ LET module == FetchModule(pgCall.resolver.mockFetch)
           cacheKey == PgKey(pgCall.resolver.playgroundId, pgCall.specifier)
       IN  /\ playgroundModuleCache' = MapSet(playgroundModuleCache, cacheKey, module)
           /\ pgOwner' = MapSet(pgOwner, cacheKey, pgCall.resolver.playgroundId)
           /\ pgCall' = PgDone(module)
    /\ UNCHANGED <<playgroundResolvers, held>>
    /\ UNCHANGED <<permVars, extVars, resolveVars, loadVars>>

\* resolveCustomToolModule(specifier) has settled: its value is cached unless
\* it is undefined, and returned
PlaygroundDelegateSettled ==
    /\ pgCall.pc = "delegated"
    /\ call[PgCaller].pc = "done"
    /\ LET module == call[PgCaller].result
           cacheKey == PgKey(pgCall.resolver.playgroundId, pgCall.specifier)
       IN  /\ IF module.kind \notin {"undefined", "error"}
              THEN /\ playgroundModuleCache' =
                          MapSet(playgroundModuleCache, cacheKey, module)
                   /\ pgOwner' = MapSet(pgOwner, cacheKey, pgCall.resolver.playgroundId)
              ELSE UNCHANGED <<playgroundModuleCache, pgOwner>>
           /\ pgCall' = PgDone(module)
    /\ call' = [call EXCEPT ![PgCaller] = NoCall]
    /\ UNCHANGED <<moduleCache, moduleRegistry, files, loads>>
    /\ UNCHANGED <<playgroundResolvers, held>>
    /\ UNCHANGED <<permVars, extVars, loadVars>>

\* the caller has taken the settled result
PlaygroundReturn ==
    /\ pgCall.pc = "done"
    /\ pgCall' = NoPgCall
    /\ UNCHANGED <<playgroundModuleCache, playgroundResolvers, held, pgOwner>>
    /\ UNCHANGED <<permVars, extVars, resolveVars, loadVars>>

\* clearPlaygroundCache(playgroundId)
ClearCache(playgroundId) ==
    /\ playgroundModuleCache' = ClearPlaygroundCache(playgroundModuleCache, playgroundId)
    /\ pgOwner' = Restrict(pgOwner, DOMAIN playgroundModuleCache')
    /\ UNCHANGED <<playgroundResolvers, held, pgCall>>
    /\ UNCHANGED <<permVars, extVars, resolveVars, loadVars>>

\* unregisterPlaygroundResolver(playgroundId)
UnregisterPlaygroundResolver(playgroundId) ==
    /\ playgroundResolvers' = MapDelete(playgroundResolvers, playgroundId)
    /\ playgroundModuleCache' = EmptyMap
    /\ pgOwner' = EmptyMap
    /\ UNCHANGED <<held, pgCall>>
    /\ UNCHANGED <<permVars, extVars, resolveVars, loadVars>>

PlaygroundInit ==
    /\ playgroundModuleCache = EmptyMap
    /\ playgroundResolvers = EmptyMap
    /\ held = {}
    /\ pgCall = NoPgCall
    /\ pgOwner = EmptyMap

PlaygroundNext ==
    \/ \E r \in Resolvers : CreatePlaygroundModuleResolver(r)
    \/ \E r \in Resolvers, a \in PlaygroundSpecifiers : PlaygroundResolveStart(r, a)
    \/ PlaygroundFetchImported
    \/ ResolveBuiltin(PgCaller)
    \/ PlaygroundDelegateSettled
    \/ PlaygroundReturn
    \/ \E id \in PlaygroundIds : ClearCache(id)
    \/ \E id \in PlaygroundIds : UnregisterPlaygroundResolver(id)

(***************************************************************************)
(* services/tools/custom-tool-compiler.ts and the loader, loadCustomTools  *)
(* (custom-tool-refresh.ts, lines 23-215)                                  *)
(*                                                                         *)
(* A file name is <<stem, separator, word, extension>>: 'a-tool.ts' is     *)
(* <<"a", "-", "tool", ".ts">>.  A file path is its directory and name.    *)
(***************************************************************************)
\* CUSTOM_TOOLS_RELATIVE_DIR
CustomToolsRelativeDir == <<".talkcody", "tools">>

HomeDir == <<"home">>

\* an absent (null, undefined or empty) option
NoPath == <<>>

EndsWith(path, suffix) ==
    /\ Len(path) >= Len(suffix)
    /\ SubSeq(path, Len(path) - Len(suffix) + 1, Len(path)) = suffix

ResolveAlwaysJoins(customDirectory) ==
    Normalize(customDirectory \o CustomToolsRelativeDir)

\* resolveCustomToolsDirectory
ResolveCustomToolsDirectory(customDirectory) ==
    IF EndsWith(Normalize(customDirectory), CustomToolsRelativeDir)
    THEN Normalize(customDirectory)
    ELSE Normalize(customDirectory \o CustomToolsRelativeDir)

AddDirUnseen(directories, path, source) ==
    Append(directories, [path |-> Normalize(path), source |-> source])

\* addDir: the directory joins the list unless its normalized path was seen
AddDir(directories, path, source) ==
    IF \E i \in 1..Len(directories) : directories[i].path = Normalize(path)
    THEN directories
    ELSE Append(directories, [path |-> Normalize(path), source |-> source])

BuildDirectoriesUserFirst(options) ==
    IF options.customDirectory # NoPath
    THEN AddDir(<<>>, ResolveCustomToolsDirectory(options.customDirectory), "custom")
    ELSE LET withUser == AddDir(<<>>, HomeDir \o CustomToolsRelativeDir, "user")
         IN  IF options.workspaceRoot # NoPath
             THEN AddDir(withUser, options.workspaceRoot \o CustomToolsRelativeDir,
                         "workspace")
             ELSE withUser

\* buildDirectories
BuildDirectories(options) ==
    IF options.customDirectory # NoPath
    THEN AddDir(<<>>, ResolveCustomToolsDirectory(options.customDirectory), "custom")
    ELSE LET withWorkspace ==
                 IF options.workspaceRoot # NoPath
                 THEN AddDir(<<>>, options.workspaceRoot \o CustomToolsRelativeDir,
                             "workspace")
                 ELSE <<>>
         IN  AddDir(withWorkspace, HomeDir \o CustomToolsRelativeDir, "user")

\* the options a caller can pass: absent values, plain directories, a
\* workspace root that is the home directory under another spelling, and an
\* explicit directory that already is a tools directory
LoadOptions ==
    [workspaceRoot : {NoPath, <<"w">>, HomeDir, <<"w", "..", "home">>, <<"home", ".">>},
     customDirectory : {NoPath, <<"c">>, <<"c", ".talkcody", "tools">>,
                        <<"w", ".", ".talkcody", "tools">>, <<"w", "x", "..">>}]

NoOptions == [workspaceRoot |-> NoPath, customDirectory |-> NoPath]

\* String.prototype.toLowerCase on the words and extensions used here
Lower(text) ==
    CASE text = "Tool" -> "tool"
      [] text = "TOOL" -> "tool"
      [] text = ".TS" -> ".ts"
      [] OTHER -> text

\* hasCustomToolExtension: /.*[-_]tool\.tsx?$/i
HasCustomToolExtension(fileName) ==
    /\ fileName[2] \in {"-", "_"}
    /\ Lower(fileName[3]) = "tool"
    /\ Lower(fileName[4]) \in {".ts", ".tsx"}

\* getToolNameFromFile: the name without a final .ts or .tsx
GetToolNameFromFile(fileName) ==
    IF Lower(fileName[4]) \in {".ts", ".tsx"}
    THEN SubSeq(fileName, 1, 3)
    ELSE IF fileName[4] = ".d.ts" THEN SubSeq(fileName, 1, 3) \o <<".d">>
    ELSE fileName

\* the filters of the entry loop: a file, not a .d.ts, with the tool suffix
IsCandidate(entry) ==
    /\ entry.isFile
    /\ entry.name[4] # ".d.ts"
    /\ HasCustomToolExtension(entry.name)

\* what readDir can return, in the order it returns it
EntryUniverse ==
    <<[name |-> <<"a", "-", "tool", ".ts">>, isFile |-> TRUE],
      [name |-> <<"b", "_", "Tool", ".tsx">>, isFile |-> TRUE],
      [name |-> <<"a", "-", "tool", ".d.ts">>, isFile |-> TRUE],
      [name |-> <<"notes", "", "", ".ts">>, isFile |-> TRUE],
      [name |-> <<"c", "-", "tool", ".ts">>, isFile |-> FALSE]>>

RECURSIVE Pick(_, _, _)
Pick(universe, chosen, i) ==
    IF i > Len(universe) THEN <<>>
    ELSE (IF i \in chosen THEN <<universe[i]>> ELSE <<>>) \o Pick(universe, chosen, i + 1)

Listings == {Pick(EntryUniverse, chosen, 1) : chosen \in SUBSET (1..Len(EntryUniverse))}

\* join(dirPath, entry.name)
FilePath(dirPath, fileName) == [dir |-> dirPath, name |-> fileName]

\* dirname(filePath)
Dirname(filePath) == filePath.dir

\* where the text of a tool file mentions another module: an import
\* declaration whose binding is used nowhere, one used by execute, one used by
\* another member such as a renderer; a require call written inside the async
\* execute function, or inside a function that is not async
SiteForms ==
    {"import-unused", "import-used-by-execute", "import-used-by-hook",
     "require-in-execute", "require-in-sync-function"}

Sites == [specifier : {"react", "lodash"}, form : SiteForms]

SiteLists == UNION {[1..n -> Sites] : n \in 0..MaxImports}

\* what a tool file exports as its default: an object with a name, an object
\* without one, an object whose name is the empty string, an object whose
\* name is a number, a non-zero number, a function, null, or nothing at all
DefaultExports ==
    {"named", "unnamed", "empty-name", "number-name",
     "primitive", "function", "null", "missing"}

\* the text of a tool file, as far as the loader can tell texts apart
Contents == [syntaxOk : BOOLEAN, sites : SiteLists, export : DefaultExports]

SpecifiersOf(sites, forms) ==
    LET kept == SelectSeq(sites, LAMBDA site : site.form \in forms)
    IN  [i \in 1..Len(kept) |-> kept[i].specifier]

UsedImportsLazy(sites) == <<>>

\* the import declarations swc keeps: those whose binding the file uses.  In
\* CommonJS output each becomes a require call at the top of the module.
UsedImports(sites) ==
    SpecifiersOf(sites, {"import-used-by-execute", "import-used-by-hook"})

\* compileCustomTool and createCustomToolModuleUrl: the requires the wrapped
\* module evaluates while __load runs, those inside its execute function, and
\* what it exports.  Every require( becomes await __require(, so a require
\* inside a function that is not async leaves a text that does not parse.
Compile(content) ==
    [parses |-> SpecifiersOf(content.sites, {"require-in-sync-function"}) = <<>>,
     loadRequires |-> UsedImports(content.sites),
     executeRequires |-> SpecifiersOf(content.sites, {"require-in-execute"}),
     export |-> content.export]

NoModule ==
    [parses |-> TRUE, loadRequires |-> <<>>, executeRequires |-> <<>>,
     export |-> "none"]

\* __moduleCache of the wrapped module: the specifier was required before
RequiredBefore(requires, next, specifier) ==
    \E i \in 1..(next - 1) : requires[i] = specifier

NoContent == [syntaxOk |-> TRUE, sites |-> <<>>, export |-> "none"]

NoCur ==
    [filePath |-> FilePath(<<>>, <<>>), content |-> NoContent, module |-> NoModule,
     next |-> 0]

NoLoad ==
    [pc |-> "idle", options |-> NoOptions, dirs |-> <<>>, d |-> 0, entries |-> <<>>,
     e |-> 0, cur |-> NoCur, listed |-> <<>>]

\* the caller slot the loader's modules use for resolveCustomToolModule
LoaderCaller == "r1"

AfterDirStops(l) == [l EXCEPT !.pc = "done", !.entries = <<>>, !.e = 0, !.cur = NoCur]

\* the loop moves to the next directory, or the pass ends
AfterDir(l) ==
    IF l.d < Len(l.dirs)
    THEN [l EXCEPT !.pc = "dir", !.d = l.d + 1, !.entries = <<>>, !.e = 0, !.cur = NoCur]
    ELSE [l EXCEPT !.pc = "done", !.entries = <<>>, !.e = 0, !.cur = NoCur]

\* the loop moves to the next entry of the directory
AfterEntry(l) ==
    IF l.e < Len(l.entries)
    THEN [l EXCEPT !.pc = "entry", !.e = l.e + 1, !.cur = NoCur]
    ELSE AfterDir(l)

CurDir == ld.dirs[ld.d]

DirError(dir, message) ==
    [kind |-> "dir", name |-> dir.path, filePath |-> FilePath(dir.path, <<>>),
     source |-> dir.source, status |-> "error", error |-> message,
     module |-> NoModule, content |-> NoContent, failed |-> "dir"]

ScanFailedDropsDirectory(rs, dir, message) ==
    Append(SelectSeq(rs, LAMBDA r : r.filePath.dir # dir.path), DirError(dir, message))

\* the catch of the per-directory try: an error result for the directory
\* joins the list
ScanFailed(rs, dir, message) == Append(rs, DirError(dir, message))

FileFailedSilently(rs, l, step, message) == rs

\* the catch of the per-file try: an error result for the file joins the list
FileFailed(rs, l, step, message) ==
    Append(rs,
           [kind |-> "file", name |-> GetToolNameFromFile(l.cur.filePath.name),
            filePath |-> l.cur.filePath, source |-> l.dirs[l.d].source,
            status |-> "error", error |-> message,
            module |-> NoModule, content |-> l.cur.content, failed |-> step])

\* __load and resolveCustomToolDefinition: module.exports?.default ??
\* module.exports, so a default export that is null or missing gives the
\* exports object of the module
ResolveCustomToolDefinition(export) ==
    IF export \in {"null", "missing"} THEN "exports-object" ELSE export

\* definition && typeof definition === 'object'
IsObject(definition) ==
    definition \in {"named", "unnamed", "empty-name", "number-name", "exports-object"}

\* the value of definition.name as the loader finds it: its type and, for a
\* string, its text
NameOf(definition) ==
    CASE definition = "named" -> [type |-> "string", text |-> <<"t">>]
      [] definition = "empty-name" -> [type |-> "string", text |-> <<>>]
      [] definition = "number-name" -> [type |-> "number", text |-> <<"7">>]
      [] OTHER -> [type |-> "undefined", text |-> <<>>]

KeepGivenName(name, toolName) == name.text

\* if (!definition.name || typeof definition.name !== 'string')
\*     definition.name = toolName
DefaultName(name, toolName) ==
    IF name.type # "string" \/ name.text = <<>> THEN toolName ELSE name.text

DefinitionName(l) ==
    DefaultName(NameOf(ResolveCustomToolDefinition(l.cur.module.export)),
                GetToolNameFromFile(l.cur.filePath.name))

FileLoaded(rs, l) ==
    Append(rs,
           [kind |-> "file", name |-> DefinitionName(l),
            filePath |-> l.cur.filePath, source |-> l.dirs[l.d].source,
            status |-> "loaded", error |-> "",
            module |-> l.cur.module, content |-> l.cur.content, failed |-> "none"])

NoRun == [index |-> 0, pc |-> "idle", next |-> 0, outcome |-> "none"]

\* loadCustomTools(options) up to the first directory
LoadBegin(options) ==
    /\ ld.pc = "idle"
    /\ ran.pc = "idle"
    /\ LET directories == BuildDirectories(options)
       IN  ld' = IF Len(directories) = 0
                 THEN [NoLoad EXCEPT !.pc = "done", !.options = options]
                 ELSE [NoLoad EXCEPT !.pc = "dir", !.options = options,
                                     !.dirs = directories, !.d = 1]
    /\ results' = <<>>
    /\ ran' = NoRun
    /\ UNCHANGED <<permVars, extVars, resolveVars, pgVars>>

\* exists(dirPath) has settled
LoadDirExists(found) ==
    /\ ld.pc = "dir"
    /\ IF found
       THEN /\ ld' = [ld EXCEPT !.pc = "readdir"]
            /\ UNCHANGED results
       ELSE /\ results' = Append(results, DirError(CurDir, "Directory not found"))
            /\ ld' = AfterDir(ld)
    /\ UNCHANGED <<ran, permVars, extVars, resolveVars, pgVars>>

\* readDir(dirPath) has settled, with the entries or with a failure
LoadReadDir(listing, ok) ==
    /\ ld.pc = "readdir"
    /\ IF ok
       THEN /\ ld' = LET candidates == SelectSeq(listing, IsCandidate)
                         listed == [ld EXCEPT
                                      !.entries = listing,
                                      !.listed = ld.listed \o
                                          [i \in 1..Len(candidates) |->
                                              FilePath(CurDir.path, candidates[i].name)]]
                     IN  IF Len(listing) = 0
                         THEN AfterDir(listed)
                         ELSE [listed EXCEPT !.pc = "entry", !.e = 1]
            /\ UNCHANGED results
       ELSE /\ results' = ScanFailed(results, CurDir, "readDir failed")
            /\ ld' = AfterDir(ld)
    /\ UNCHANGED <<ran, permVars, extVars, resolveVars, pgVars>>

\* exists(dirPath) has rejected
LoadExistsFails ==
    /\ ld.pc = "dir"
    /\ results' = ScanFailed(results, CurDir, "exists failed")
    /\ ld' = AfterDir(ld)
    /\ UNCHANGED <<ran, permVars, extVars, resolveVars, pgVars>>

\* join(dirPath, entry.name) has rejected for a candidate entry
LoadJoinFails ==
    /\ ld.pc = "entry"
    /\ IsCandidate(ld.entries[ld.e])
    /\ results' = ScanFailed(results, CurDir, "join failed")
    /\ ld' = AfterDir(ld)
    /\ UNCHANGED <<ran, permVars, extVars, resolveVars, pgVars>>

\* one turn of the entry loop up to readTextFile
LoadEntry ==
    /\ ld.pc = "entry"
    /\ LET entry == ld.entries[ld.e]
       IN  ld' = IF IsCandidate(entry)
                 THEN [ld EXCEPT !.pc = "read",
                                 !.cur = [NoCur EXCEPT
                                            !.filePath = FilePath(CurDir.path, entry.name)]]
                 ELSE AfterEntry(ld)
    /\ UNCHANGED <<results, ran, permVars, extVars, resolveVars, pgVars>>

\* readTextFile(filePath) has settled: the text is there, or the read failed
LoadRead(content, ok) ==
    /\ ld.pc = "read"
    /\ IF ok
       THEN /\ content # NoContent
            /\ ld' = [ld EXCEPT !.pc = "compile", !.cur.content = content]
            /\ UNCHANGED results
       ELSE /\ content = NoContent
            /\ results' = FileFailed(results, ld, "read", "read failed")
            /\ ld' = AfterEntry(ld)
    /\ UNCHANGED <<ran, permVars, extVars, resolveVars, pgVars>>

\* compileCustomTool has settled; the module URL is made and its import starts
LoadTransformed ==
    /\ IF ld.cur.content.syntaxOk
       THEN /\ ld' = [ld EXCEPT !.pc = "import", !.cur.module = Compile(ld.cur.content),
                                !.cur.next = 1]
            /\ UNCHANGED results
       ELSE /\ results' = FileFailed(results, ld, "compile", "syntax error")
            /\ ld' = AfterEntry(ld)
    /\ UNCHANGED <<ran, permVars, extVars, resolveVars, pgVars>>

LoadCompile ==
    /\ ld.pc = "compile"
    /\ LoadTransformed

\* __load runs up to its next require, or to its end
LoadImport ==
    /\ ld.pc = "import"
    /\ LET requires == ld.cur.module.loadRequires
           next == ld.cur.next
       IN  IF ~ld.cur.module.parses
           THEN /\ results' = FileFailed(results, ld, "import", "SyntaxError")
                /\ ld' = AfterEntry(ld)
                /\ UNCHANGED resolveVars
           ELSE IF next > Len(requires)
           THEN /\ ld' = [ld EXCEPT !.pc = "validate"]
                /\ UNCHANGED <<results, resolveVars>>
           ELSE IF RequiredBefore(requires, next, requires[next])
           THEN /\ ld' = [ld EXCEPT !.cur.next = next + 1]
                /\ UNCHANGED <<results, resolveVars>>
           ELSE /\ call[LoaderCaller].pc = "idle"
                /\ ResolveStartStep(LoaderCaller, requires[next], Dirname(ld.cur.filePath))
                /\ ld' = [ld EXCEPT !.pc = "require"]
                /\ UNCHANGED results
    /\ UNCHANGED <<ran, permVars, extVars, pgVars>>

\* __require: the resolver has settled; a value that is not there is thrown
LoadRequireSettled ==
    /\ ld.pc = "require"
    /\ call[LoaderCaller].pc = "done"
    /\ LET resolved == call[LoaderCaller].result
       IN  IF resolved.kind \in {"undefined", "error"}
           THEN /\ results' = FileFailed(results, ld, "import",
                                         IF resolved.kind = "undefined"
                                         THEN "Custom tool import not found"
                                         ELSE "import failed")
                /\ ld' = AfterEntry(ld)
           ELSE /\ ld' = [ld EXCEPT !.pc = "import", !.cur.next = ld.cur.next + 1]
                /\ UNCHANGED results
    /\ call' = [call EXCEPT ![LoaderCaller] = NoCall]
    /\ UNCHANGED <<moduleCache, moduleRegistry, files, loads>>
    /\ UNCHANGED <<ran, permVars, extVars, pgVars>>

\* the default export is checked and named, and the result joins the list
LoadValidate ==
    /\ ld.pc = "validate"
    /\ results' = IF IsObject(ResolveCustomToolDefinition(ld.cur.module.export))
                  THEN FileLoaded(results, ld)
                  ELSE FileFailed(results, ld, "validate", "Invalid tool export")
    /\ ld' = AfterEntry(ld)
    /\ UNCHANGED <<ran, permVars, extVars, resolveVars, pgVars>>

\* loadCustomTools returns the summary
LoadReturn ==
    /\ ld.pc = "done"
    /\ ld' = [ld EXCEPT !.pc = "idle"]
    /\ UNCHANGED <<results, ran, permVars, extVars, resolveVars, pgVars>>

\* the execute function of a loaded definition runs up to its next require,
\* or to its end
RunExecute(i) ==
    /\ ld.pc = "idle"
    /\ i \in 1..Len(results)
    /\ results[i].status = "loaded"
    /\ \/ /\ ran.pc = "idle"
          /\ ran' = [index |-> i, pc |-> "run", next |-> 1, outcome |-> "none"]
          /\ UNCHANGED resolveVars
       \/ /\ ran.pc = "run"
          /\ ran.index = i
          /\ LET requires == results[i].module.executeRequires
             IN  IF ran.next > Len(requires)
                 THEN /\ ran' = [ran EXCEPT !.pc = "idle", !.outcome = "ok"]
                      /\ UNCHANGED resolveVars
                 ELSE IF \/ RequiredBefore(requires, ran.next, requires[ran.next])
                         \/ RequiredBefore(results[i].module.loadRequires,
                                           Len(results[i].module.loadRequires) + 1,
                                           requires[ran.next])
                 THEN /\ ran' = [ran EXCEPT !.next = ran.next + 1]
                      /\ UNCHANGED resolveVars
                 ELSE /\ call[LoaderCaller].pc = "idle"
                      /\ ResolveStartStep(LoaderCaller, requires[ran.next],
                                          Dirname(results[i].filePath))
                      /\ ran' = [ran EXCEPT !.pc = "require"]
    /\ UNCHANGED <<ld, results, permVars, extVars, pgVars>>

\* __require inside execute: the resolver has settled
RunRequireSettled ==
    /\ ran.pc = "require"
    /\ call[LoaderCaller].pc = "done"
    /\ ran' = IF call[LoaderCaller].result.kind \in {"undefined", "error"}
              THEN [ran EXCEPT !.pc = "idle", !.outcome = "error"]
              ELSE [ran EXCEPT !.pc = "run", !.next = ran.next + 1]
    /\ call' = [call EXCEPT ![LoaderCaller] = NoCall]
    /\ UNCHANGED <<moduleCache, moduleRegistry, files, loads>>
    /\ UNCHANGED <<ld, results, permVars, extVars, pgVars>>

LoadInit ==
    /\ ld = NoLoad
    /\ results = <<>>
    /\ ran = NoRun

\* the texts the files of a directory pass hold
PassContents ==
    {c \in Contents :
        /\ c.sites \in {<<>>, <<[specifier |-> "lodash", form |-> "import-used-by-execute"]>>}
        /\ c.export \in {"named", "primitive"}}

\* the directories a pass over several directories finds
PassListings == {l \in Listings : Len(l) <= 3 /\ Len(SelectSeq(l, IsCandidate)) >= 1}

\* the options of a pass over several directories
PassOptions ==
    {o \in LoadOptions :
        /\ o.workspaceRoot \in {NoPath, <<"w">>}
        /\ o.customDirectory \in {NoPath, <<"c">>}}

\* a load pass over the directories, file by file
LoadNext ==
    \/ \E o \in PassOptions : LoadBegin(o)
    \/ \E found \in BOOLEAN : LoadDirExists(found)
    \/ \E l \in PassListings, ok \in BOOLEAN : LoadReadDir(l, ok)
    \/ LoadEntry
    \/ \E c \in PassContents \cup {NoContent}, ok \in BOOLEAN : LoadRead(c, ok)
    \/ LoadCompile
    \/ LoadImport
    \/ LoadRequireSettled
    \/ LoadValidate
    \/ LoadReturn

\* a load pass in which the scan of a directory can fail at any of its steps
ScanNext ==
    \/ LoadNext
    \/ LoadExistsFails
    \/ LoadJoinFails

\* the texts of a single tool file with its imports
ImportContents == {c \in Contents : c.syntaxOk /\ c.export = "named"}

SingleListing == {<<EntryUniverse[1]>>}

SingleOptions == {[workspaceRoot |-> NoPath, customDirectory |-> <<"c">>]}

\* the texts of files that differ in their default export only
ExportContents == {c \in Contents : c.syntaxOk /\ c.sites = <<>>}

\* load passes over one directory whose files export anything
ExportNext ==
    \/ \E o \in SingleOptions : LoadBegin(o)
    \/ \E found \in BOOLEAN : LoadDirExists(found)
    \/ \E l \in PassListings, ok \in BOOLEAN : LoadReadDir(l, ok)
    \/ LoadEntry
    \/ \E c \in ExportContents \cup {NoContent}, ok \in BOOLEAN : LoadRead(c, ok)
    \/ LoadCompile
    \/ LoadImport
    \/ LoadValidate
    \/ LoadReturn

\* the text of the one file of a directory pass
PlainContents == {c \in PassContents : c.syntaxOk /\ c.sites = <<>> /\ c.export = "named"}

\* load passes for every combination of options, one file to a directory
DirectoriesNext ==
    \/ \E o \in LoadOptions : LoadBegin(o)
    \/ \E found \in BOOLEAN : LoadDirExists(found)
    \/ \E l \in SingleListing, ok \in BOOLEAN : LoadReadDir(l, ok)
    \/ LoadEntry
    \/ \E c \in PlainContents : LoadRead(c, TRUE)
    \/ LoadCompile
    \/ LoadImport
    \/ LoadValidate
    \/ LoadReturn

\* one tool file is loaded and its execute function is called
ImportNext ==
    \/ \E o \in SingleOptions : LoadBegin(o)
    \/ LoadDirExists(TRUE)
    \/ \E l \in SingleListing : LoadReadDir(l, TRUE)
    \/ LoadEntry
    \/ \E c \in ImportContents : LoadRead(c, TRUE)
    \/ LoadCompile
    \/ LoadImport
    \/ ResolveBuiltin(LoaderCaller)
    \/ LoadRequireSettled
    \/ LoadValidate
    \/ LoadReturn
    \/ \E i \in 1..Len(results) : RunExecute(i)
    \/ RunRequireSettled

(***************************************************************************)
(* lib/custom-tool-sdk/import-map.ts: the simpleFetch of a playground      *)
(*                                                                         *)
(* The module a playground resolver returns for '@/lib/tauri-fetch' holds  *)
(* one function, simpleFetch: the mock, or the wrapper that runs the live  *)
(* simpleFetch under a timer.                                              *)
(***************************************************************************)
Urls == {"u1", "u2"}

NoResponse == [ok |-> FALSE, status |-> 0, body |-> [mock |-> FALSE, url |-> ""]]

\* what the live simpleFetch can answer
LiveResponses(url) ==
    {[ok |-> TRUE, status |-> 200, body |-> [mock |-> FALSE, url |-> url]],
     [ok |-> FALSE, status |-> 500, body |-> [mock |-> FALSE, url |-> url]]}

NoFetch ==
    [pc |-> "idle", url |-> "", by |-> NoPgCall.resolver, wrapper |-> "none",
     starts |-> 0, signal |-> "none", timer |-> "none", response |-> NoResponse,
     failed |-> FALSE]

\* the mock simpleFetch: { ok: true, status: 200, json: () => ({ mock: true, url }) }
MockSimpleFetch(url) ==
    [NoFetch EXCEPT !.pc = "done", !.url = url,
                    !.response = [ok |-> TRUE, status |-> 200,
                                  body |-> [mock |-> TRUE, url |-> url]]]

\* the timeout wrapper up to its await: new AbortController, setTimeout, and
\* the live simpleFetch started with the controller's signal
TimeoutSimpleFetch(url) ==
    [NoFetch EXCEPT !.pc = "live", !.url = url, !.starts = 1, !.signal = "passed",
                    !.timer = "set"]

\* simpleFetch(url) of the module the resolver has just returned
SimpleFetchCall(url) ==
    /\ fetching.pc = "idle"
    /\ pgCall.pc = "done"
    /\ pgCall.result.kind \in {"mock-fetch", "timeout-fetch"}
    /\ fetching' = [(IF pgCall.result.kind = "mock-fetch"
                     THEN MockSimpleFetch(url)
                     ELSE TimeoutSimpleFetch(url))
                        EXCEPT !.by = pgCall.resolver, !.wrapper = pgCall.result.kind]
    /\ UNCHANGED <<permVars, resolveVars, pgVars, loadVars, compileVars, settled, recentVars,
                   adaptVars, nestVars, diskVars>>

\* the timer set by the wrapper fires: controller.abort()
TimerFires ==
    /\ fetching.timer = "set"
    /\ fetching' = [fetching EXCEPT !.timer = "fired",
                                    !.signal = IF @ = "passed" THEN "aborted" ELSE @]
    /\ UNCHANGED <<permVars, resolveVars, pgVars, loadVars, compileVars, settled, recentVars,
                   adaptVars, nestVars, diskVars>>

\* the live simpleFetch settles by itself, with a response or with a failure;
\* the wrapper's finally clears the timer
LiveSettles(response, ok) ==
    /\ fetching.pc = "live"
    /\ fetching.signal # "aborted"
    /\ fetching' = [fetching EXCEPT !.pc = "done",
                                    !.response = IF ok THEN response ELSE NoResponse,
                                    !.failed = ~ok,
                                    !.timer = IF @ = "set" THEN "cleared" ELSE @]
    /\ UNCHANGED <<permVars, resolveVars, pgVars, loadVars, compileVars, settled, recentVars,
                   adaptVars, nestVars, diskVars>>

\* the live simpleFetch, its signal aborted, fails with the abort error
LiveAborted ==
    /\ fetching.pc = "live"
    /\ fetching.signal = "aborted"
    /\ fetching' = [fetching EXCEPT !.pc = "done", !.failed = TRUE]
    /\ UNCHANGED <<permVars, resolveVars, pgVars, loadVars, compileVars, settled, recentVars,
                   adaptVars, nestVars, diskVars>>

\* the caller has the answer of simpleFetch
FetchReturn ==
    /\ fetching.pc = "done"
    /\ fetching' = NoFetch
    /\ UNCHANGED <<permVars, resolveVars, pgVars, loadVars, compileVars, settled, recentVars,
                   adaptVars, nestVars, diskVars>>

FetchInit == fetching = NoFetch

\* the resolvers of two playgrounds, with and without 'net' and the mock flag
FetchResolvers == {r \in Resolvers : r.playgroundId \in {<<"a">>, <<"b">>}}

\* playground resolvers asked for the fetch module, and calls of its simpleFetch
FetchNext ==
    \/ \E r \in FetchResolvers : CreatePlaygroundModuleResolver(r)
    \/ \E r \in FetchResolvers : PlaygroundResolveStart(r, "@/lib/tauri-fetch")
    \/ PlaygroundFetchImported
    \/ PlaygroundReturn
    \/ \E url \in Urls : SimpleFetchCall(url)
    \/ TimerFires
    \/ \E url \in Urls, ok \in BOOLEAN : \E response \in LiveResponses(url) :
           fetching.url = url /\ LiveSettles(response, ok)
    \/ LiveAborted
    \/ FetchReturn

(***************************************************************************)
(* services/tools/custom-tool-registry.tsx: adaptCustomTools, and          *)
(* services/tools/custom-tool-refresh.ts: refreshCustomTools               *)
(*                                                                         *)
(* A definition is known by the file it was loaded from; an adapted tool   *)
(* keeps the definition it wraps.                                          *)
(***************************************************************************)
\* adaptCustomTool: the tool carries the definition's name and wraps it
AdaptCustomTool(definition) ==
    [name |-> definition.name, definition |-> definition, canConcurrent |-> FALSE]

RECURSIVE AdaptKeepFirst(_, _)
AdaptKeepFirst(tools, definitions) ==
    IF definitions = <<>> THEN tools
    ELSE AdaptKeepFirst(IF Head(definitions).name \in DOMAIN tools
                        THEN tools
                        ELSE MapSet(tools, Head(definitions).name,
                                    AdaptCustomTool(Head(definitions))),
                        Tail(definitions))

\* the loop of adaptCustomTools: tools[definition.name] = adaptCustomTool(definition)
RECURSIVE AdaptInto(_, _)
AdaptInto(tools, definitions) ==
    IF definitions = <<>> THEN tools
    ELSE AdaptInto(MapSet(tools, Head(definitions).name, AdaptCustomTool(Head(definitions))),
                   Tail(definitions))

AdaptCustomToolsKeepFirst(definitions) == AdaptKeepFirst(EmptyMap, definitions)

\* adaptCustomTools(definitions)
AdaptCustomTools(definitions) == AdaptInto(EmptyMap, definitions)

\* the loop of refreshCustomTools: tools[tool.name] = tool
RECURSIVE RefreshInto(_, _)
RefreshInto(tools, stateTools) ==
    IF stateTools = <<>> THEN tools
    ELSE RefreshInto(MapSet(tools, Head(stateTools).name, Head(stateTools)), Tail(stateTools))

\* the definitions of the entries that loaded, in the order of the results
LoadedDefinitions(rs) ==
    LET loaded == SelectSeq(rs, LAMBDA r : r.status = "loaded")
    IN  [i \in 1..Len(loaded) |->
            [name |-> loaded[i].name, filePath |-> loaded[i].filePath,
             export |-> loaded[i].module.export]]

\* loadCustomToolsForRegistry: the adapted tools of the loaded definitions
StateTools(rs) ==
    LET definitions == LoadedDefinitions(rs)
    IN  [i \in 1..Len(definitions) |-> AdaptCustomTool(definitions[i])]

NoRefresh == [pc |-> "idle", given |-> <<>>, adapted |-> EmptyMap, tools |-> EmptyMap]

\* refreshCustomTools after the load it awaited has returned its results
RefreshCustomTools ==
    /\ ld.pc = "idle"
    /\ ld.options # NoOptions
    /\ refreshed' = [pc |-> "done", given |-> results,
                     adapted |-> AdaptCustomTools(LoadedDefinitions(results)),
                     tools |-> RefreshInto(EmptyMap, StateTools(results))]
    /\ UNCHANGED rendered
    /\ UNCHANGED <<permVars, resolveVars, pgVars, loadVars, compileVars, settled, recentVars,
                   nestVars, fetchVars, diskVars>>

(***************************************************************************)
(* services/tools/custom-tool-registry.tsx: renderToolResult;              *)
(* components/tools/custom-tool-result: CustomToolResult;                  *)
(* services/tools/custom-tool-ui-fallback.tsx: CustomToolResultFallback    *)
(*                                                                         *)
(* A result is a record of its typeof, its text when it is a string, a     *)
(* number or a boolean, and the 'success', 'error' and 'data' fields it    *)
(* carries when it is an object; a field it does not carry is Undefined.   *)
(***************************************************************************)
PrimitiveResults ==
    {[type |-> "undefined", text |-> ""], [type |-> "null", text |-> ""],
     [type |-> "string", text |-> ""], [type |-> "string", text |-> "done"],
     [type |-> "number", text |-> "0"], [type |-> "number", text |-> "7"],
     [type |-> "boolean", text |-> "true"]}

ToolResults ==
    {[type |-> p.type, text |-> p.text,
      success |-> Undefined, error |-> Undefined, data |-> Undefined] :
        p \in PrimitiveResults}
    \cup [type : {"object"}, text : {""},
          success : {Undefined, "true", "false"},
          error : {Undefined, "", "boom", "oops"},
          data : {Undefined, "d"}]

\* what `if (x)` makes of a result
Truthy(result) ==
    CASE result.type \in {"undefined", "null"} -> FALSE
      [] result.type = "string" -> result.text # ""
      [] result.type = "number" -> result.text # "0"
      [] result.type = "boolean" -> result.text = "true"
      [] OTHER -> TRUE

\* what `if (x)` makes of a string or undefined
TruthyText(text) == text # Undefined /\ text # ""

\* CustomToolResultFallback: the props it hands to GenericToolResult
CustomToolResultFallback(message, success, error) ==
    LET resolvedSuccess == IF success # Undefined THEN success = "true"
                           ELSE ~TruthyText(error)
    IN  [kind |-> "fallback",
         success |-> resolvedSuccess,
         message |-> IF message # Undefined THEN message
                     ELSE IF resolvedSuccess THEN "Custom tool executed" ELSE Undefined,
         error |-> error]

\* the value of definition.ui.Result(result, params, {toolName})
HookView == [kind |-> "hook", success |-> TRUE, message |-> Undefined, error |-> Undefined]

\* renderToolResult(result, params) of the adapted tool, and CustomToolResult
\* ({definition, input, output}), which has the same body
RenderToolResult(hasResultHook, result) ==
    IF hasResultHook THEN HookView
    ELSE IF /\ Truthy(result) /\ result.type = "object"
            /\ (result.success = "false" \/ TruthyText(result.error))
    THEN CustomToolResultFallback(
             Undefined,
             IF result.success # Undefined THEN result.success ELSE "false",
             IF TruthyText(result.error) THEN result.error ELSE "Custom tool failed")
    ELSE CustomToolResultFallback(
             IF result.type = "string" THEN result.text ELSE "Custom tool executed",
             "true", Undefined)

NoRender == [by |-> "none"]

\* the host renders the result of a call through the adapted tool's hook
RenderByAdapter(hasResultHook, result) ==
    /\ rendered' = [by |-> "renderToolResult", hook |-> hasResultHook, result |-> result,
                    view |-> RenderToolResult(hasResultHook, result)]
    /\ UNCHANGED refreshed
    /\ UNCHANGED <<permVars, resolveVars, pgVars, loadVars, compileVars, settled, recentVars,
                   nestVars, fetchVars, diskVars>>

\* the CustomToolResult component renders an output
RenderByComponent(hasResultHook, output) ==
    /\ rendered' = [by |-> "CustomToolResult", hook |-> hasResultHook, result |-> output,
                    view |-> RenderToolResult(hasResultHook, output)]
    /\ UNCHANGED refreshed
    /\ UNCHANGED <<permVars, resolveVars, pgVars, loadVars, compileVars, settled, recentVars,
                   nestVars, fetchVars, diskVars>>

\* results rendered one after another, by either renderer
RenderNext ==
    \/ \E hook \in BOOLEAN, r \in ToolResults : RenderByAdapter(hook, r)
    \/ \E hook \in BOOLEAN, r \in ToolResults : RenderByComponent(hook, r)

AdaptInit == refreshed = NoRefresh /\ rendered = NoRender

\* load passes over one directory, each followed by a refresh of the tool map
RefreshNext ==
    \/ \E o \in SingleOptions : LoadBegin(o)
    \/ LoadDirExists(TRUE)
    \/ \E l \in PassListings : LoadReadDir(l, TRUE)
    \/ LoadEntry
    \/ \E c \in ExportContents : LoadRead(c, TRUE)
    \/ LoadCompile
    \/ LoadImport
    \/ LoadValidate
    \/ LoadReturn
    \/ RefreshCustomTools

\* the texts of a tool file that imports './helper' and uses the binding
HelperContents ==
    {[syntaxOk |-> TRUE, sites |-> <<[specifier |-> "./helper", form |-> f]>>, export |-> x] :
        f \in {"import-used-by-execute", "import-used-by-hook"},
        x \in {"named", "unnamed"}}

\* load passes over one directory whose tool file imports a helper, each
\* followed by a refresh, with the helper written and rewritten between them
RescanNext ==
    \/ \E o \in SingleOptions : LoadBegin(o)
    \/ LoadDirExists(TRUE)
    \/ \E l \in SingleListing : LoadReadDir(l, TRUE)
    \/ LoadEntry
    \/ \E c \in HelperContents : LoadRead(c, TRUE)
    \/ LoadCompile
    \/ LoadImport
    \/ ResolvePath(LoaderCaller)
    \/ \E ok \in BOOLEAN : ResolveLoaded(LoaderCaller, ok)
    \/ LoadRequireSettled
    \/ LoadValidate
    \/ LoadReturn
    \/ RefreshCustomTools
    \/ \E p \in RescanPaths : WriteFile(p)
    \/ \E p \in RescanPaths : EditFile(p)

(***************************************************************************)
(* services/tools/custom-tool-compiler.ts: createCustomToolModuleUrl and   *)
(* registerCustomToolModuleResolver; import-map.ts: loadAndCompileFile     *)
(*                                                                         *)
(* A wrapped module carries the directory it was given as __baseDir and    *)
(* hands it to the resolver with every require.  While a tool's module     *)
(* evaluates a require of a helper file, the helper is compiled, wrapped   *)
(* with its own directory and evaluated in turn.                           *)
(***************************************************************************)
\* the specifiers tool files and helpers require here
NestedSpecifiers == {"./helper", "./sub/x"}

\* the helper files that can exist
NestedPaths == {<<"d1", "helper">>, <<"d1", "sub", "helper">>, <<"d1", "sub", "x">>}

\* the requires in the text of a helper file: x requires its sibling helper
ModuleRequires(path) ==
    IF path[Len(path)] = "x" THEN <<"./helper">> ELSE <<>>

\* the require lists of tool files
ToolRequires ==
    {<<>>} \cup {<<s>> : s \in NestedSpecifiers}
           \cup {<<s, t>> : s \in NestedSpecifiers, t \in NestedSpecifiers}

\* dirname(filePath) of an absolute path
DirnameOf(path) == SubSeq(path, 1, Len(path) - 1)

\* registerCustomToolModuleResolver: requestBaseDir ?? baseDir
EffectiveBaseDir(requestBaseDir, baseDir) ==
    IF requestBaseDir # NoBaseDir THEN requestBaseDir ELSE baseDir

\* createCustomToolModuleUrl: __baseDir is the directory the module was
\* wrapped with, which loadCustomTools and loadAndCompileFile take from the
\* file's own path
ModuleBaseDir(frames, k) == frames[k].dir

\* a wrapped module that starts to evaluate
Frame(dir, requires) == [dir |-> dir, requires |-> requires, next |-> 1, pc |-> "run"]

\* the resolver invocation of the module at depth k
CallerAt(k) == <<"r1", "r2", "r3">>[k]

Ended(frame) == frame.pc \in {"ended", "failed"}

\* loadCustomTools has wrapped a tool file found in dir and imports it
EvalTool(dir, requires) ==
    /\ evaluating = <<>> \/ (Len(evaluating) = 1 /\ Ended(evaluating[1]))
    /\ \A c \in Callers : call[c].pc = "idle"
    /\ evaluating' = <<Frame(dir, requires)>>
    /\ required' = {}
    /\ UNCHANGED <<permVars, resolveVars, pgVars, loadVars, compileVars, settled, recentVars,
                   adaptVars, fetchVars, diskVars>>

\* __load of the innermost module runs up to its next require, which goes to
\* the resolver with the module's __baseDir, or to its end
EvalRequire ==
    /\ evaluating # <<>>
    /\ LET k == Len(evaluating)
           f == evaluating[k]
       IN  /\ f.pc = "run"
           /\ IF f.next > Len(f.requires)
              THEN /\ evaluating' = [evaluating EXCEPT ![k].pc = "ended"]
                   /\ UNCHANGED resolveVars
              ELSE IF RequiredBefore(f.requires, f.next, f.requires[f.next])
              THEN /\ evaluating' = [evaluating EXCEPT ![k].next = f.next + 1]
                   /\ UNCHANGED resolveVars
              ELSE /\ call[CallerAt(k)].pc = "idle"
                   /\ ResolveStartStep(CallerAt(k), f.requires[f.next],
                                       EffectiveBaseDir(ModuleBaseDir(evaluating, k),
                                                        NoBaseDir))
                   /\ evaluating' = [evaluating EXCEPT ![k].pc = "wait"]
    /\ UNCHANGED required
    /\ UNCHANGED <<permVars, pgVars, loadVars, compileVars, settled, recentVars, adaptVars, fetchVars, diskVars>>

\* loadAndCompileFile has found, read, compiled and wrapped the helper with
\* the helper's directory, and its import begins
EvalHelper ==
    /\ evaluating # <<>>
    /\ Len(evaluating) < 3
    /\ LET k == Len(evaluating)
           c == CallerAt(k)
       IN  /\ evaluating[k].pc = "wait"
           /\ call[c].pc = "load"
           /\ call[c].path \in files
           /\ evaluating' = Append(evaluating,
                                   Frame(DirnameOf(call[c].path), ModuleRequires(call[c].path)))
    /\ UNCHANGED required
    /\ UNCHANGED <<permVars, resolveVars, pgVars, loadVars, compileVars, settled, recentVars,
                   adaptVars, fetchVars, diskVars>>

\* the import of the helper has settled and loadAndCompileFile returns
EvalHelperLoaded ==
    /\ Len(evaluating) >= 2
    /\ Ended(evaluating[Len(evaluating)])
    /\ ResolveLoaded(CallerAt(Len(evaluating) - 1), evaluating[Len(evaluating)].pc = "ended")

\* loadAndCompileFile fails before the helper is imported
EvalHelperFails ==
    /\ evaluating # <<>>
    /\ evaluating[Len(evaluating)].pc = "wait"
    /\ ResolveLoaded(CallerAt(Len(evaluating)), FALSE)

\* __require of a waiting module gets the resolver's answer
EvalRequireSettled ==
    \E k \in 1..Len(evaluating) :
        LET f == evaluating[k]
            c == CallerAt(k)
        IN  /\ f.pc = "wait"
            /\ call[c].pc = "done"
            /\ evaluating' =
                   [SubSeq(evaluating, 1, k) EXCEPT
                      ![k] = IF call[c].result.kind \in {"undefined", "error"}
                             THEN [f EXCEPT !.pc = "failed"]
                             ELSE [f EXCEPT !.pc = "run", !.next = f.next + 1]]
            /\ required' = required \cup
                               {[depth |-> k, dir |-> f.dir, specifier |-> call[c].alias,
                                 baseDir |-> call[c].baseDir, result |-> call[c].result]}
            /\ call' = [call EXCEPT ![c] = NoCall]
            /\ UNCHANGED <<moduleCache, moduleRegistry, files, loads>>
            /\ UNCHANGED <<permVars, pgVars, loadVars, compileVars, settled, recentVars,
                           adaptVars, fetchVars, diskVars>>

NestInit ==
    /\ evaluating = <<>>
    /\ required = {}

\* tool files that require helpers, and helpers that require helpers
NestedNext ==
    \/ \E dir \in BaseDirs, requires \in ToolRequires : EvalTool(dir, requires)
    \/ EvalRequire
    \/ \E c \in Callers : ResolvePath(c)
    \/ EvalHelper
    \/ EvalHelperLoaded
    \/ EvalHelperFails
    \/ EvalRequireSettled
    \/ \E p \in NestedPaths : WriteFile(p)

(***************************************************************************)
(* services/tools/custom-tool-compiler.ts: ensureSwcReady, compileCustomTool*)
(***************************************************************************)
CompileCallers == {"k1", "k2"}

SourceTexts == {"s1", "s2"}

\* file names handed to compileCustomTool, as <<stem, separator, word, extension>>
CompileFilenames == {<<"a", "-", "tool", ext>> : ext \in {".ts", ".tsx", ".TSX"}}

\* what swc.transform can return: its code and its source map, which may be absent
TransformOutputs == [code : {"c1", "c2"}, map : {"map", Undefined}]

NoArgs == [source |-> "", filename |-> <<>>, syntax |-> "", tsx |-> FALSE, moduleType |-> ""]

NoOutput == [code |-> "", sourceMap |-> ""]

NoTransformOutput == [code |-> "", map |-> ""]

NoCompile ==
    [pc |-> "idle", source |-> "", filename |-> <<>>, instance |-> 0,
     passed |-> NoArgs, given |-> NoTransformOutput, result |-> NoOutput,
     failed |-> FALSE, error |-> ""]

\* the CompileResult made of what swc.transform returned
CompileResult(output) == [code |-> output.code, sourceMap |-> output.map]

StartsInitAlways(ready) == TRUE

\* the states of the memoized promise after it was rejected: by swc.default,
\* or by the import of the transpiler's module
Rejected == {"rejected", "import-rejected"}

\* the error a rejected promise hands to everyone who awaits it
RejectionOf(ready) == IF ready = "rejected" THEN "init failed" ELSE "import failed"

StartsInitAfterFailure(ready) == ready \in {"null"} \cup Rejected

\* ensureSwcReady: the initialization is started when no promise is memoized
StartsInit(ready) == ready = "null"

\* options.filename.endsWith('.tsx')
EndsWithTsx(filename) == filename[Len(filename)] = ".tsx"

TransformArgsJsxAlways(source, filename) ==
    [source |-> source, filename |-> filename, syntax |-> "typescript",
     tsx |-> TRUE, moduleType |-> "commonjs"]

\* the arguments compileCustomTool passes to swc.transform
TransformArgs(source, filename) ==
    [source |-> source, filename |-> filename, syntax |-> "typescript",
     tsx |-> EndsWithTsx(filename), moduleType |-> "commonjs"]

\* compileCustomTool(source, options) up to the await of ensureSwcReady; the
\* first caller creates the promise, whose body runs up to its import
CompileStart(k, source, filename) ==
    /\ compiling[k].pc = "idle"
    /\ compiling' = [compiling EXCEPT
                       ![k] = [NoCompile EXCEPT !.pc = "ready", !.source = source,
                                                !.filename = filename]]
    /\ swcReady' = IF StartsInit(swcReady) THEN "importing" ELSE swcReady
    /\ UNCHANGED swcInits
    /\ UNCHANGED <<permVars, resolveVars, pgVars, loadVars, settled, recentVars, lateVars>>

\* import('@swc/wasm-web') has settled and swc.default(...) is called
SwcImported ==
    /\ swcReady = "importing"
    /\ swcInits < MaxInits
    /\ swcInits' = swcInits + 1
    /\ swcReady' = "initializing"
    /\ UNCHANGED compiling
    /\ UNCHANGED <<permVars, resolveVars, pgVars, loadVars, settled, recentVars, lateVars>>

\* import('@swc/wasm-web') has rejected, and the memoized promise with it
SwcImportFails ==
    /\ swcReady = "importing"
    /\ swcReady' = "import-rejected"
    /\ UNCHANGED <<swcInits, compiling>>
    /\ UNCHANGED <<permVars, resolveVars, pgVars, loadVars, settled, recentVars, lateVars>>

\* swc.default(...) has settled: the promise is fulfilled with the module, or
\* rejected
SwcInitialized(ok) ==
    /\ swcReady = "initializing"
    /\ swcReady' = IF ok THEN "fulfilled" ELSE "rejected"
    /\ UNCHANGED <<swcInits, compiling>>
    /\ UNCHANGED <<permVars, resolveVars, pgVars, loadVars, settled, recentVars, lateVars>>

\* the caller's await of the promise ends: swc.transform is called with the
\* source and the options, or the caller rejects with the promise
CompileTransform(k) ==
    /\ compiling[k].pc = "ready"
    /\ swcReady \in {"fulfilled"} \cup Rejected
    /\ compiling' = [compiling EXCEPT
                       ![k] = IF swcReady \in Rejected
                              THEN [@ EXCEPT !.pc = "done", !.failed = TRUE,
                                             !.error = RejectionOf(swcReady)]
                              ELSE [@ EXCEPT !.pc = "transform", !.instance = swcInits,
                                             !.passed = TransformArgs(compiling[k].source,
                                                                      compiling[k].filename)]]
    /\ UNCHANGED <<swcReady, swcInits>>
    /\ UNCHANGED <<permVars, resolveVars, pgVars, loadVars, settled, recentVars, lateVars>>

\* swc.transform has settled: its code and map are returned, or it rejected
CompileSettled(k, output, ok) ==
    /\ compiling[k].pc = "transform"
    /\ compiling' = [compiling EXCEPT
                       ![k] = IF ok
                              THEN [@ EXCEPT !.pc = "done", !.given = output,
                                             !.result = CompileResult(output)]
                              ELSE [@ EXCEPT !.pc = "done", !.failed = TRUE,
                                             !.error = "transform failed"]]
    /\ UNCHANGED <<swcReady, swcInits>>
    /\ UNCHANGED <<permVars, resolveVars, pgVars, loadVars, settled, recentVars, lateVars>>

\* the caller has taken the result
CompileReturn(k) ==
    /\ compiling[k].pc = "done"
    /\ compiling' = [compiling EXCEPT ![k] = NoCompile]
    /\ UNCHANGED <<swcReady, swcInits>>
    /\ UNCHANGED <<permVars, resolveVars, pgVars, loadVars, settled, recentVars, lateVars>>

\* the loader's call of compileCustomTool up to the await of ensureSwcReady
LoadEnsureSwc ==
    /\ ld.pc = "compile"
    /\ ld' = [ld EXCEPT !.pc = "ensure"]
    /\ swcReady' = IF StartsInit(swcReady) THEN "importing" ELSE swcReady
    /\ UNCHANGED <<swcInits, compiling, results, ran>>
    /\ UNCHANGED <<permVars, resolveVars, pgVars, settled, recentVars, lateVars>>

\* the loader's await of the promise ends: the file fails with the promise's
\* error, or swc.transform runs and the loader goes on
LoadSwcSettled ==
    /\ ld.pc = "ensure"
    /\ swcReady \in {"fulfilled"} \cup Rejected
    /\ IF swcReady \in Rejected
       THEN /\ results' = FileFailed(results, ld, "compile", RejectionOf(swcReady))
            /\ ld' = AfterEntry(ld)
            /\ UNCHANGED <<ran, permVars, extVars, resolveVars, pgVars>>
       ELSE LoadTransformed

\* load passes over one directory and direct calls of compileCustomTool, with
\* an initialization of the transpiler that can fail
FailedInitNext ==
    \/ \E o \in SingleOptions : LoadBegin(o)
    \/ LoadDirExists(TRUE)
    \/ \E l \in PassListings : LoadReadDir(l, TRUE)
    \/ LoadEntry
    \/ \E c \in PlainContents : LoadRead(c, TRUE)
    \/ LoadEnsureSwc
    \/ LoadSwcSettled
    \/ LoadImport
    \/ LoadValidate
    \/ LoadReturn
    \/ \E filename \in CompileFilenames : CompileStart("k1", "s1", filename)
    \/ SwcImported
    \/ SwcImportFails
    \/ \E ok \in BOOLEAN : SwcInitialized(ok)
    \/ CompileTransform("k1")
    \/ \E output \in TransformOutputs, ok \in BOOLEAN : CompileSettled("k1", output, ok)
    \/ CompileReturn("k1")

SettledInit == settled = NoSettled

CompileInit ==
    /\ swcReady = "null"
    /\ swcInits = 0
    /\ compiling = [k \in CompileCallers |-> NoCompile]

CompileNext ==
    \/ \E k \in CompileCallers, source \in SourceTexts, filename \in CompileFilenames :
           CompileStart(k, source, filename)
    \/ SwcImported
    \/ \E ok \in BOOLEAN : SwcInitialized(ok)
    \/ \E k \in CompileCallers : CompileTransform(k)
    \/ \E k \in CompileCallers, output \in TransformOutputs, ok \in BOOLEAN :
           CompileSettled(k, output, ok)
    \/ \E k \in CompileCallers : CompileReturn(k)

(***************************************************************************)
(* services/database/recent-files-service.ts: RecentFilesService           *)
(*                                                                         *)
(* A row of recent_files is [id, file, repo, at]; files are numbered.  The *)
(* table has a UNIQUE constraint on (file_path, repository_path).          *)
(***************************************************************************)
nonRecentVars == <<permVars, resolveVars, pgVars, loadVars, compileVars, settled, lateVars>>

Repositories == {"R1", "R2"}

AddCallers == {"a1", "a2", "a3"}

\* the files addRecentFile is called with: one that an older row may hold and
\* two that no older row holds
AddFiles == {1, MaxRecentFiles + 1, MaxRecentFiles + 2}

\* limits given to getRecentFiles
Limits == {-1, 2, 100}

Min(a, b) == IF a <= b THEN a ELSE b

\* the table after n calls of addRecentFile for files 1..n of repository R1,
\* one call per millisecond
Prefilled(n) == {[id |-> i, file |-> i, repo |-> "R1", at |-> i] : i \in 1..n}

\* WHERE file_path = ? AND repository_path = ?
Matching(rs, file, repo) == {r \in rs : r.file = file /\ r.repo = repo}

\* WHERE repository_path = ?
RepoRows(rs, repo) == {r \in rs : r.repo = repo}

UpdateAnyRepository(rs, file, repo, at) ==
    {IF r.file = file THEN [r EXCEPT !.at = at] ELSE r : r \in rs}

\* UPDATE recent_files SET opened_at = ? WHERE file_path = ? AND repository_path = ?
Update(rs, file, repo, at) ==
    {IF r.file = file /\ r.repo = repo THEN [r EXCEPT !.at = at] ELSE r : r \in rs}

InsertAlways(rs, file, repo) == FALSE

\* the UNIQUE constraint: an INSERT of a pair the table holds fails
InsertConflicts(rs, file, repo) == Matching(rs, file, repo) # {}

IsUniqueConstraintErrorNever(error) == FALSE

\* isUniqueConstraintError
IsUniqueConstraintError(error) == error = "UNIQUE constraint failed"

\* ORDER BY opened_at DESC LIMIT n: the sets of rows the statement can give;
\* a negative n is no limit, and rows of equal opened_at come in any order
Tops(rs, n) ==
    IF n < 0 \/ Cardinality(rs) <= n THEN {rs}
    ELSE IF n = 0 THEN {{}}
    ELSE LET above(v) == {r \in rs : r.at > v}
             ties(v) == {r \in rs : r.at = v}
             boundary == CHOOSE v \in {r.at : r \in rs} :
                             /\ Cardinality(above(v)) < n
                             /\ Cardinality(above(v)) + Cardinality(ties(v)) >= n
         IN  {above(boundary) \cup keep :
                 keep \in {k \in SUBSET ties(boundary) :
                              Cardinality(k) = n - Cardinality(above(boundary))}}

NoAdd ==
    [pc |-> "idle", file |-> 0, repo |-> "", at |-> 0, path |-> "none",
     failed |-> FALSE]

NoGot == [repo |-> "", limit |-> 0, rows |-> {}]

NoClear == [pc |-> "idle", repo |-> "", failed |-> FALSE]

AllIdle == \A a \in AddCallers : adding[a].pc = "idle"

\* addRecentFile(filePath, repositoryPath) up to its first statement:
\* Date.lastNow() is read, and never goes back
AddStart(a, file, repo, t) ==
    /\ adding[a].pc = "idle"
    /\ adds < MaxAdds
    /\ t >= lastNow
    /\ lastNow' = t
    /\ adds' = adds + 1
    /\ adding' = [adding EXCEPT
                    ![a] = [NoAdd EXCEPT !.pc = "update", !.file = file, !.repo = repo,
                                         !.at = t]]
    /\ got' = NoGot
    /\ UNCHANGED <<rows, nextId>>
    /\ UNCHANGED <<clearing, nonRecentVars>>

\* the first UPDATE has run: a row found ends the call
AddUpdate(a) ==
    /\ adding[a].pc = "update"
    /\ LET c == adding[a]
       IN  /\ rows' = Update(rows, c.file, c.repo, c.at)
           /\ adding' = [adding EXCEPT
                           ![a] = IF Cardinality(Matching(rows, c.file, c.repo)) > 0
                                  THEN [c EXCEPT !.pc = "done", !.path = "updated"]
                                  ELSE [c EXCEPT !.pc = "insert"]]
    /\ UNCHANGED <<nextId, lastNow, adds, got>>
    /\ UNCHANGED <<clearing, nonRecentVars>>

\* the INSERT has run: the row is in, or the constraint refused it; an error
\* that is not a constraint error is thrown on
AddInsert(a) ==
    /\ adding[a].pc = "insert"
    /\ LET c == adding[a]
       IN  IF InsertConflicts(rows, c.file, c.repo)
           THEN /\ adding' = [adding EXCEPT
                                ![a] = IF IsUniqueConstraintError("UNIQUE constraint failed")
                                       THEN [c EXCEPT !.pc = "retry"]
                                       ELSE [c EXCEPT !.pc = "done", !.failed = TRUE]]
                /\ UNCHANGED <<rows, nextId>>
           ELSE /\ rows' = rows \cup {[id |-> nextId, file |-> c.file, repo |-> c.repo,
                                       at |-> c.at]}
                /\ nextId' = nextId + 1
                /\ adding' = [adding EXCEPT ![a] = [c EXCEPT !.pc = "count",
                                                             !.path = "inserted"]]
    /\ UNCHANGED <<lastNow, adds, got>>
    /\ UNCHANGED <<clearing, nonRecentVars>>

\* the UPDATE after a refused INSERT has run
AddRetry(a) ==
    /\ adding[a].pc = "retry"
    /\ LET c == adding[a]
       IN  /\ rows' = Update(rows, c.file, c.repo, c.at)
           /\ adding' = [adding EXCEPT ![a] = [c EXCEPT !.pc = "count", !.path = "retried"]]
    /\ UNCHANGED <<nextId, lastNow, adds, got>>
    /\ UNCHANGED <<clearing, nonRecentVars>>

\* getFilesCount has settled: the count, or 0 when the SELECT failed
AddCount(a, ok) ==
    /\ adding[a].pc = "count"
    /\ LET c == adding[a]
           count == IF ok THEN Cardinality(RepoRows(rows, c.repo)) ELSE 0
       IN  adding' = [adding EXCEPT
                        ![a] = [c EXCEPT !.pc = IF count > MaxRecentFiles
                                                THEN "cleanup" ELSE "done"]]
    /\ UNCHANGED <<rows, nextId, lastNow, adds, got>>
    /\ UNCHANGED <<clearing, nonRecentVars>>

\* cleanupOldEntries has settled: the repository's rows after the first
\* MAX_RECENT_FILES by opened_at are deleted, or the DELETE failed
AddCleanup(a, ok) ==
    /\ adding[a].pc = "cleanup"
    /\ LET c == adding[a]
       IN  IF ok
           THEN \E kept \in Tops(RepoRows(rows, c.repo), MaxRecentFiles) :
                    rows' = (rows \ RepoRows(rows, c.repo)) \cup kept
           ELSE UNCHANGED rows
    /\ adding' = [adding EXCEPT ![a].pc = "done"]
    /\ UNCHANGED <<nextId, lastNow, adds, got>>
    /\ UNCHANGED <<clearing, nonRecentVars>>

\* the caller has seen the call end
AddReturn(a) ==
    /\ adding[a].pc = "done"
    /\ adding' = [adding EXCEPT ![a] = NoAdd]
    /\ UNCHANGED <<rows, nextId, lastNow, adds, got>>
    /\ UNCHANGED <<clearing, nonRecentVars>>

\* getRecentFiles(repositoryPath, limit)
GetRecentFiles(repo, limit) ==
    /\ AllIdle
    /\ got = NoGot
    /\ \E top \in Tops(RepoRows(rows, repo), Min(limit, MaxRecentFiles)) :
           got' = [repo |-> repo, limit |-> limit, rows |-> top]
    /\ UNCHANGED <<rows, nextId, lastNow, adding, adds>>
    /\ UNCHANGED <<clearing, nonRecentVars>>

\* clearRecentFiles(repositoryPath) up to its DELETE statement
ClearStart(repo) ==
    /\ clearing.pc = "idle"
    /\ clearing' = [pc |-> "delete", repo |-> repo, failed |-> FALSE]
    /\ UNCHANGED <<rows, nextId, lastNow, adding, adds, got>>
    /\ UNCHANGED nonRecentVars

\* DELETE FROM recent_files WHERE repository_path = ? has run, or has failed
\* and the error is thrown on
ClearDelete(ok) ==
    /\ clearing.pc = "delete"
    /\ rows' = IF ok THEN rows \ RepoRows(rows, clearing.repo) ELSE rows
    /\ clearing' = [clearing EXCEPT !.pc = "done", !.failed = ~ok]
    /\ UNCHANGED <<nextId, lastNow, adding, adds, got>>
    /\ UNCHANGED nonRecentVars

\* the caller has seen clearRecentFiles end
ClearReturn ==
    /\ clearing.pc = "done"
    /\ clearing' = NoClear
    /\ UNCHANGED <<rows, nextId, lastNow, adding, adds, got>>
    /\ UNCHANGED nonRecentVars

RecentInit(n) ==
    /\ rows = Prefilled(n)
    /\ nextId = n + 1
    /\ lastNow = n
    /\ adding = [a \in AddCallers |-> NoAdd]
    /\ adds = 0
    /\ got = NoGot
    /\ clearing = NoClear

\* the steps every addRecentFile call takes after its start
AddSteps ==
    \/ \E a \in AddCallers : AddUpdate(a)
    \/ \E a \in AddCallers : AddInsert(a)
    \/ \E a \in AddCallers : AddRetry(a)
    \/ \E a \in AddCallers, ok \in BOOLEAN : AddCount(a, ok)
    \/ \E a \in AddCallers, ok \in BOOLEAN : AddCleanup(a, ok)
    \/ \E a \in AddCallers : AddReturn(a)

\* addRecentFile calls that overlap, on files no older row holds
ConcurrentAddNext ==
    \/ \E a \in AddCallers, file \in AddFiles \ {1}, t \in {lastNow, lastNow + 1} :
           AddStart(a, file, "R1", t)
    \/ AddSteps

\* addRecentFile calls one after the other, a millisecond or more apart, and
\* getRecentFiles between them
SequentialAddNext ==
    \/ \E file \in AddFiles, repo \in Repositories :
           AllIdle /\ AddStart("a1", file, repo, lastNow + 1)
    \/ AddUpdate("a1")
    \/ AddInsert("a1")
    \/ \E ok \in BOOLEAN : AddCount("a1", ok)
    \/ \E ok \in BOOLEAN : AddCleanup("a1", ok)
    \/ AddReturn("a1")
    \/ \E repo \in Repositories, limit \in Limits : GetRecentFiles(repo, limit)

\* resolutions of bare specifiers, with registrations
BareNext ==
    \/ \E a \in RegisteredAliases, m \in ModuleRefs : RegisterCustomToolModule(a, m)
    \/ \E c \in Callers, a \in BareSpecifiers : ResolveStart(c, a, NoBaseDir)
    \/ \E c \in Callers : ResolveBuiltin(c)
    \/ \E c \in Callers : ResolveInternal(c)
    \/ \E c \in Callers : ResolveReturn(c)

\* resolutions of relative specifiers, with the helper files changing on disk
RelativeNext ==
    \/ \E c \in RelativeCallers, a \in RelativeSpecifiers, d \in BaseDirs \cup {NoBaseDir} :
          ResolveStart(c, a, d)
    \/ \E c \in RelativeCallers : ResolvePath(c)
    \/ \E c \in RelativeCallers, ok \in BOOLEAN : ResolveLoaded(c, ok)
    \/ \E c \in RelativeCallers : ResolveReturn(c)
    \/ \E p \in HelperPaths : WriteFile(p)
    \/ \E p \in HelperPaths : RemoveFile(p)

PermInit ==
    /\ grants = EmptyMap
    /\ clock = 0
    /\ lastOp = [t \in ToolNames |-> NoOp]
    /\ execPc = "idle"
    /\ execDef = NoDef
    /\ checkRes = NoCheck

OtherInit ==
    /\ PermInit /\ ResolveInit /\ PlaygroundInit /\ LoadInit /\ CompileInit /\ SettledInit
    /\ AdaptInit
    /\ NestInit
    /\ FetchInit
    /\ DiskInit

Init == OtherInit /\ RecentInit(0)

\* the recent-files table empty, one row short of the cap, or at the cap
InitRecent ==
    /\ OtherInit
    /\ \E n \in {0, MaxRecentFiles - 1, MaxRecentFiles} : RecentInit(n)

PermNext ==
    \/ \E t \in ToolNames, p \in PermLists, now \in 0..MaxClock : Grant(t, p, now)
    \/ \E t \in ToolNames : Revoke(t)
    \/ \E d \in Definitions, now \in 0..MaxClock : ExecuteEnter(d, now, "p1", "k1")
    \/ ExecuteCall
    \/ ExecuteSettle
    \/ \E t \in ToolNames, p \in PermLists, now \in 0..MaxClock :
          GrantDuringExecute(t, p, now)
    \/ \E t \in ToolNames : RevokeDuringExecute(t)

\* calls of the execute wrapper, one at a time, with grants and revocations
\* between them
ExecuteNext ==
    \/ \E t \in ToolNames, p \in PermLists : Grant(t, p, clock)
    \/ \E t \in ToolNames : Revoke(t)
    \/ \E d \in Definitions, given \in ExecuteArguments :
           ExecuteEnter(d, clock, given.params, given.context)
    \/ ExecuteCall
    \/ \E o \in ExecuteOutcomes : ExecuteSettled(o)

CheckNext ==
    \/ \E t \in ToolNames, p \in PermLists : Grant(t, p, clock)
    \/ \E t \in ToolNames : Revoke(t)
    \/ \E t \in ToolNames, p \in RequestLists : Check(t, p)

\* the permission store with the adapter's execute wrapper
SpecPerm == Init /\ [][PermNext]_vars

\* the permission store with the standalone check
SpecCheck == Init /\ [][CheckNext]_vars

\* the module resolver, bare specifiers, concurrent callers
SpecBare == Init /\ [][BareNext]_vars

\* the loader over directories of tool files
SpecLoad == Init /\ [][LoadNext]_vars

\* the recent-files table empty or at the cap
InitConcurrent ==
    /\ OtherInit
    /\ \E n \in {0, MaxRecentFiles} : RecentInit(n)

\* overlapping addRecentFile calls
SpecConcurrentAdd == InitConcurrent /\ [][ConcurrentAddNext]_vars

\* addRecentFile calls in sequence
SpecSequentialAdd == InitRecent /\ [][SequentialAddNext]_vars

\* the execute wrapper of an adapted tool and how it ends
SpecExecute == Init /\ [][ExecuteNext]_vars

\* the loader's validation of what a file exports
SpecExport == Init /\ [][ExportNext]_vars

\* the name-keyed tool map of a load pass
SpecRefresh == Init /\ [][RefreshNext]_vars

\* requires evaluated by tool modules and by the helpers they import
SpecNested == Init /\ [][NestedNext]_vars

\* the simpleFetch a playground resolver returns
SpecFetch == Init /\ [][FetchNext]_vars

\* concurrent calls of the compiler
SpecCompile == Init /\ [][CompileNext]_vars

\* the loader's choice of directories
SpecDirectories == Init /\ [][DirectoriesNext]_vars

\* the loader on one tool file, and the loaded definition's execute function
SpecImport == Init /\ [][ImportNext]_vars

\* the playground resolvers and their cache
SpecPlayground == Init /\ [][PlaygroundNext]_vars

\* the module resolver, relative specifiers, concurrent callers
SpecRelative == Init /\ [][RelativeNext]_vars

(***************************************************************************)
(* Permission gate and adapter: properties                                 *)
(***************************************************************************)

\* C3: grantPermission replaces, never unions: when the last grant/revoke call
\* for a tool was grantPermission(t, P), the grant record of t holds exactly P.
C3_GrantReplaces ==
    \A t \in ToolNames :
        lastOp[t].op = "grant" =>
            /\ HasGrant(grants, t)
            /\ grants[t].permissions = lastOp[t].permissions

\* a grant of <<"net">> has replaced a record that held another permission
C3_Witness ==
    \E t \in ToolNames :
        /\ lastOp[t].op = "grant"
        /\ lastOp[t].dropped
        /\ lastOp[t].permissions = <<"net">>

IsSubsequenceInOrder(sub, s) ==
    \E f \in [1..Len(sub) -> 1..Len(s)] :
        /\ \A i \in 1..Len(sub) : s[f[i]] = sub[i]
        /\ \A i, j \in 1..Len(sub) : i < j => f[i] < f[j]

\* C4: checkCustomToolPermissions returns as 'missing' exactly the requested
\* permissions that are not in the tool's grant (all of them without a grant
\* record), 'allowed' is true exactly when 'missing' is empty, and the store is
\* the same after the call as before it.
C4_CheckIsSetDifference ==
    checkRes.toolName # Undefined =>
        LET g == checkRes.before
            t == checkRes.toolName
            granted == IF t \in DOMAIN g THEN Range(g[t].permissions) ELSE {}
            r == checkRes.result
        IN  /\ Range(r.missing) = Range(checkRes.requested) \ granted
            /\ NoDup(r.missing)
            /\ IsSubsequenceInOrder(r.missing, checkRes.requested)
            /\ r.allowed <=> (r.missing = <<>>)
            /\ grants = g

\* a check of a two-permission request against a grant that holds one of them
C4_Witness ==
    /\ checkRes.toolName # Undefined
    /\ HasGrant(grants, checkRes.toolName)
    /\ Len(checkRes.requested) = 2
    /\ Len(checkRes.result.missing) = 1
    /\ ~checkRes.result.allowed

\* C5: a grant record for t exists exactly when the most recent grant/revoke
\* call on t (the wrapper's grants included) was a grant; after a revoke every
\* non-empty request is denied with missing = requested; a record never goes
\* away without a revoke.
C5_GrantLifecycle ==
    \A t \in ToolNames :
        /\ HasGrant(grants, t) <=> (lastOp[t].op = "grant")
        /\ lastOp[t].op = "revoke" =>
               \A req \in RequestLists \ {<<>>} :
                   CheckCustomToolPermissions(grants, t, req) =
                       [allowed |-> FALSE, missing |-> req]

\* a revoke has removed an existing record
C5_Witness ==
    \E t \in ToolNames :
        /\ lastOp[t].op = "revoke"
        /\ lastOp[t].dropped
        /\ ~HasGrant(grants, t)

\* C6 as stated: at every call of definition.execute by the wrapper, the
\* store's grant for the tool's name holds the declared permission list,
\* whatever the declared list.
C6_GrantedBeforeExecuteAnyList ==
    execPc = "call" =>
        /\ HasGrant(grants, execDef.name)
        /\ grants[execDef.name].permissions = Requested(execDef)

WrapperGrantedBeforeCall ==
    (execPc = "call" /\ Requested(execDef) # <<>>) =>
        /\ HasGrant(grants, execDef.name)
        /\ grants[execDef.name].permissions = Requested(execDef)

WrapperLeavesStoreWhenEmpty ==
    (execPc = "idle" /\ execPc' = "call" /\ Requested(execDef') = <<>>) =>
        grants' = grants

\* C6 amended: at every call of definition.execute by the wrapper of a
\* definition with a non-empty declared list, the store's grant for the tool's
\* name holds that list; with an empty or absent list the wrapper leaves the
\* store as it found it.
C6_GrantedBeforeExecute ==
    []WrapperGrantedBeforeCall /\ [][WrapperLeavesStoreWhenEmpty]_vars

\* the wrapper is about to call execute after replacing a different grant
C6_Witness ==
    /\ execPc = "call"
    /\ Requested(execDef) # <<>>
    /\ lastOp[execDef.name].dropped
    /\ grants[execDef.name].permissions = Requested(execDef)

(***************************************************************************)
(* Module resolver: properties                                             *)
(***************************************************************************)

\* C2: a relative specifier resolved from a base directory returns the module
\* compiled from the file at its own resolved absolute path, whatever was
\* resolved before; the module of one directory is never returned for another.
C2_RelativeResolvesOwnPath ==
    \A c \in Callers :
        (/\ call[c].pc = "done"
         /\ call[c].alias \in RelativeSpecifiers
         /\ call[c].baseDir \in BaseDirs
         /\ call[c].result.kind = "file")
        => call[c].result.of = ResolveRelativePath(call[c].baseDir, call[c].alias)

\* two settled resolutions of the same bare specifier with no registration of
\* it since the earlier one started
SamePair(c1, c2) ==
    /\ c1 # c2
    /\ call[c1].pc = "done"
    /\ call[c2].pc = "done"
    /\ call[c1].alias \in BareSpecifiers
    /\ call[c1].alias = call[c2].alias
    /\ ~call[c1].registered
    /\ ~call[c2].registered

\* neither resolution started while another one of the specifier was in flight
Sequential(c1, c2) == ~call[c1].overlap /\ ~call[c2].overlap

\* C10 as stated: two resolutions of the same bare specifier with no
\* registration in between return the identical value, and the loader of the
\* specifier is invoked by at most one of them.
C10_SameValueLoadedOnceAnyTwo ==
    \A c1, c2 \in Callers :
        SamePair(c1, c2) =>
            /\ call[c1].result = call[c2].result
            /\ ~(call[c1].loaded /\ call[c2].loaded)

\* C10 amended: when neither resolution started while another resolution of
\* the specifier was in flight, the two return the identical value and the
\* loader is invoked by at most one of them.
C10_SameValueLoadedOnce ==
    \A c1, c2 \in Callers :
        (SamePair(c1, c2) /\ Sequential(c1, c2)) =>
            /\ call[c1].result = call[c2].result
            /\ ~(call[c1].loaded /\ call[c2].loaded)

\* 'react' resolved twice in a row: the first call loaded it, the second did not
C10_Witness ==
    \E c1, c2 \in Callers :
        /\ SamePair(c1, c2)
        /\ Sequential(c1, c2)
        /\ call[c1].alias = "react"
        /\ call[c1].loaded
        /\ ~call[c2].loaded
        /\ call[c2].result.kind = "builtin"

(***************************************************************************)
(* Playground resolver: properties                                         *)
(***************************************************************************)

\* C7: through a resolver created without 'net', every resolution of
\* '@/lib/tauri-fetch' ends in the permission-denied error and never in a
\* module, whatever was resolved before by any resolver and whatever the mock
\* flag.
C7_DeniedWithoutNet ==
    (/\ pgCall.pc = "done"
     /\ pgCall.specifier = "@/lib/tauri-fetch"
     /\ "net" \notin pgCall.resolver.permissions)
    => pgCall.result = PermissionDenied

\* the entries of the cache that a resolver of the playground wrote
EntriesOf(playgroundId) ==
    {k \in DOMAIN playgroundModuleCache : pgOwner[k] = playgroundId}

ClearConfinedTo(playgroundId) ==
    /\ \A k \in EntriesOf(playgroundId) : k \notin DOMAIN playgroundModuleCache'
    /\ \A other \in PlaygroundIds \ {playgroundId} :
           \A k \in EntriesOf(other) :
               /\ k \in DOMAIN playgroundModuleCache'
               /\ playgroundModuleCache'[k] = playgroundModuleCache[k]

\* C8: clearPlaygroundCache(A) removes every entry recorded under A and leaves
\* every entry recorded under any other playground id present and unchanged.
C8_ClearConfined ==
    [][\A id \in PlaygroundIds : ClearCache(id) => ClearConfinedTo(id)]_vars

FileResults == SelectSeq(results, LAMBDA r : r.kind = "file")

IsPrefix(short, long) ==
    /\ Len(short) <= Len(long)
    /\ SubSeq(long, 1, Len(short)) = short

\* the specifier no registration, builtin or internal module answers in the
\* loader runs
Unresolvable == "lodash"

HasSite(content, specifiers, forms) ==
    \E i \in 1..Len(content.sites) :
        /\ content.sites[i].specifier \in specifiers
        /\ content.sites[i].form \in forms

\* whether the read, the compilation, the import and the validation of a file
\* with this text all go through; a failed read leaves no text
AllStepsSucceed(content) ==
    /\ content # NoContent
    /\ content.syntaxOk
    /\ ~HasSite(content, {"react", "lodash"}, {"require-in-sync-function"})
    /\ ~HasSite(content, {Unresolvable}, {"import-used-by-execute", "import-used-by-hook"})
    /\ content.export # "primitive"

\* the results hold the candidate files listed so far, one entry each and in
\* order, and each entry's status follows from its own file alone
OneEntryPerCandidate ==
    /\ IsPrefix([i \in 1..Len(FileResults) |-> FileResults[i].filePath], ld.listed)
    /\ ld.pc \in {"done", "idle"} => Len(FileResults) = Len(ld.listed)
    /\ \A i \in 1..Len(FileResults) :
           /\ FileResults[i].status = "loaded" <=> AllStepsSucceed(FileResults[i].content)
           /\ FileResults[i].status \in {"loaded", "error"}
           /\ FileResults[i].status = "error" => FileResults[i].error # ""

\* within a pass an entry, once in the list, stays as it is
EntriesStay == ld.pc # "idle" => IsPrefix(results, results')

Executed(i) == ran.index = i /\ ran.pc = "idle" /\ ran.outcome = "ok"

ExecuteFinished(i) == ran.index = i /\ ran.pc = "idle" /\ ran.outcome # "none"

\* C9 as stated: a tool file that imports a specifier resolving to nothing,
\* and whose execute path never uses that import, is loaded with status
\* 'loaded' and its execute function runs successfully.
C9_UnusedByExecuteLoadsAnyForm ==
    \A i \in 1..Len(results) :
        (/\ results[i].kind = "file"
         /\ HasSite(results[i].content, {Unresolvable}, SiteForms)
         /\ ~HasSite(results[i].content, {Unresolvable},
                     {"import-used-by-execute", "require-in-execute"})
         /\ ~HasSite(results[i].content, {"react", "lodash"}, {"require-in-sync-function"}))
        => /\ results[i].status = "loaded"
           /\ ExecuteFinished(i) => Executed(i)

\* C9: a tool file whose only mention of a specifier that resolves to nothing
\* is an import whose binding the file uses nowhere, or a require inside the
\* async execute function, is loaded with status 'loaded', and its execute
\* function succeeds when it evaluates no such require; a file that uses the
\* binding anywhere, in execute or not, fails at import with status 'error'.
C9_UnevaluatedImportLoads ==
    \A i \in 1..Len(results) :
        (/\ results[i].kind = "file"
         /\ HasSite(results[i].content, {Unresolvable}, SiteForms)
         /\ ~HasSite(results[i].content, {"react", "lodash"}, {"require-in-sync-function"}))
        => IF HasSite(results[i].content, {Unresolvable},
                      {"import-used-by-execute", "import-used-by-hook"})
           THEN results[i].status = "error" /\ results[i].failed = "import"
           ELSE /\ results[i].status = "loaded"
                /\ ExecuteFinished(i) =>
                       (Executed(i) <=> ~HasSite(results[i].content, {Unresolvable},
                                                 {"require-in-execute"}))

\* a loaded file with an unused import of the unresolvable specifier whose
\* execute function has run to its end
C9_Witness ==
    \E i \in 1..Len(results) :
        /\ results[i].status = "loaded"
        /\ HasSite(results[i].content, {Unresolvable}, {"import-unused"})
        /\ Executed(i)

\* no two directories of the scan list have the same normalized path
DirectoriesDistinct ==
    \A i, j \in 1..Len(ld.dirs) :
        i # j => Normalize(ld.dirs[i].path) # Normalize(ld.dirs[j].path)

\* within a pass the directory loop stays on its directory or moves to the next
DirectoriesInTurn == ld.pc # "idle" => ld'.d \in {ld.d, ld.d + 1}

\* C11: directory deduplication: for every combination of explicit directory,
\* workspace root and home directory, the scan list of loadCustomTools never
\* holds two entries with the same normalized path, and a pass visits the list
\* in order, so no directory is scanned twice in one pass.
C11_DirectoriesScannedOnce == []DirectoriesDistinct /\ [][DirectoriesInTurn]_vars

\* a finished pass whose workspace root is the home directory under another
\* spelling, with one directory scanned
C11_Witness ==
    /\ ld.pc = "done"
    /\ ld.options.customDirectory = NoPath
    /\ ld.options.workspaceRoot = <<"w", "..", "home">>
    /\ Len(ld.dirs) = 1
    /\ Len(results) = 1

\* C17: an explicit custom directory overrides all others: the scan list is
\* one directory of source 'custom' whose path is the normalized explicit
\* directory, with '.talkcody/tools' appended unless it already ends so, and
\* no result comes from a workspace or user directory, whatever the workspace
\* root.
C17_ExplicitDirectoryOnly ==
    ld.options.customDirectory # NoPath =>
        LET explicit == Normalize(ld.options.customDirectory)
        IN  /\ Len(ld.dirs) = 1
            /\ ld.dirs[1].source = "custom"
            /\ ld.dirs[1].path =
                   IF Len(explicit) >= 2
                      /\ explicit[Len(explicit) - 1] = ".talkcody"
                      /\ explicit[Len(explicit)] = "tools"
                   THEN explicit
                   ELSE explicit \o <<".talkcody", "tools">>
            /\ \A i \in 1..Len(results) :
                   /\ results[i].source = "custom"
                   /\ results[i].filePath.dir = ld.dirs[1].path

\* a finished pass with a workspace root and an explicit directory that is
\* already that workspace's tools directory, whose file was loaded
C17_Witness ==
    /\ ld.pc = "done"
    /\ ld.options.workspaceRoot = <<"w">>
    /\ ld.options.customDirectory = <<"w", ".", ".talkcody", "tools">>
    /\ ld.dirs[1].path = <<"w", ".talkcody", "tools">>
    /\ Len(results) = 1
    /\ results[1].status = "loaded"

DirResults(path) ==
    SelectSeq(results, LAMBDA r : r.kind = "dir" /\ r.filePath.dir = path)

\* an absent directory adds one error result that stands for the directory,
\* and the loop goes on to the next directory
MissingDirectoryReported ==
    (ld.pc = "dir" /\ ld'.pc # "readdir" /\ ld' # ld) =>
        /\ Len(results') = Len(results) + 1
        /\ IsPrefix(results, results')
        /\ LET r == results'[Len(results')]
           IN  /\ r.status = "error"
               /\ r.name = ld.dirs[ld.d].path
               /\ r.filePath = FilePath(ld.dirs[ld.d].path, <<>>)
               /\ r.error = "Directory not found"
        /\ IF ld.d < Len(ld.dirs)
           THEN ld'.pc = "dir" /\ ld'.d = ld.d + 1
           ELSE ld'.pc = "done"

\* a pass ends only after the last directory, with at most one result standing
\* for each directory
PassVisitsEveryDirectory ==
    /\ ld.pc = "done" => ld.d = Len(ld.dirs)
    /\ \A i \in 1..Len(ld.dirs) : Len(DirResults(ld.dirs[i].path)) <= 1

\* C13: a missing directory is never fatal: each scanned directory that does
\* not exist adds exactly one 'error' result whose name and filePath are the
\* directory path, the remaining directories are still scanned, and the pass
\* ends with its result list.
C13_MissingDirectoryNotFatal ==
    []PassVisitsEveryDirectory /\ [][MissingDirectoryReported]_vars

\* a finished pass whose first directory was absent and whose second
\* directory gave a loaded file
C13_Witness ==
    /\ ld.pc = "done"
    /\ Len(ld.dirs) = 2
    /\ \E j \in 2..Len(results) :
           /\ results[1].kind = "dir" /\ results[1].error = "Directory not found"
           /\ results[1].name = ld.dirs[1].path
           /\ results[j].status = "loaded"
           /\ results[j].filePath.dir = ld.dirs[2].path

\* a file whose name ends, whatever the case, in '-tool' and then '.ts' or '.tsx'
EndsInDashTool(entry) ==
    /\ entry.isFile
    /\ entry.name[2] = "-"
    /\ Lower(entry.name[3]) = "tool"
    /\ Lower(entry.name[4]) \in {".ts", ".tsx"}

\* C12: candidate file filter: an entry of a listed directory is a tool
\* candidate exactly when it is a file whose name ends, compared without
\* regard to case, in '-tool' followed by '.ts' or '.tsx'; no other name is a
\* candidate, and a name ending in '.d.ts' never is.
C12_CandidateIsDashTool ==
    \A i \in 1..Len(ld.entries) :
        /\ FilePath(ld.dirs[ld.d].path, ld.entries[i].name) \in Range(ld.listed)
               <=> EndsInDashTool(ld.entries[i])
        /\ ld.entries[i].name[4] = ".d.ts"
               => FilePath(ld.dirs[ld.d].path, ld.entries[i].name) \notin Range(ld.listed)

\* the initialization routine has run at most once, and a caller that got past
\* its await uses the instance of that one run
OneInitialization ==
    /\ swcInits <= 1
    /\ \A k \in CompileCallers :
           compiling[k].pc = "transform" => swcInits = 1 /\ compiling[k].instance = 1

\* C14: compiler initialization happens at most once per process: for any
\* number of compileCustomTool calls in any interleaving, several of them
\* started before the first initialization has finished included, swc.default
\* is run once and every caller transforms with that same instance.
C14_InitializedOnce == OneInitialization

\* two callers, the second started while the initialization was pending, both
\* transforming on the one instance
C14_Witness ==
    /\ swcInits = 1
    /\ \A k \in CompileCallers : compiling[k].pc = "transform" /\ compiling[k].instance = 1

\* C18: compileCustomTool passes the source text unchanged to the transpiler,
\* with TypeScript syntax and with JSX parsing on exactly when the filename
\* ends in '.tsx', and returns the transpiler's code and source map unchanged
\* as 'code' and 'sourceMap'.
C18_TransformArguments ==
    \A k \in CompileCallers :
        /\ compiling[k].pc \in {"transform", "done"} /\ ~compiling[k].failed =>
               /\ compiling[k].passed.source = compiling[k].source
               /\ compiling[k].passed.syntax = "typescript"
               /\ compiling[k].passed.tsx <=>
                      compiling[k].filename[Len(compiling[k].filename)] = ".tsx"
        /\ compiling[k].pc = "done" /\ ~compiling[k].failed =>
               /\ compiling[k].result.code = compiling[k].given.code
               /\ compiling[k].result.sourceMap = compiling[k].given.map

\* a finished compilation of a '.ts' file whose transform gave no source map
C18_Witness ==
    \E k \in CompileCallers :
        /\ compiling[k].pc = "done" /\ ~compiling[k].failed
        /\ compiling[k].filename[4] = ".ts"
        /\ ~compiling[k].passed.tsx
        /\ compiling[k].result = [code |-> "c1", sourceMap |-> Undefined]

\* C15: an invalid export is an error: a candidate file whose compiled module
\* has no default export, or whose default export is null, a primitive or a
\* function, yields a result with status 'error' and no attached definition;
\* it is never recorded as 'loaded'.
C15_InvalidExportIsError ==
    \A i \in 1..Len(results) :
        (/\ results[i].kind = "file"
         /\ results[i].failed \in {"none", "validate"}
         /\ results[i].content.export \in {"missing", "null", "primitive", "function"})
        => results[i].status = "error" /\ results[i].module = NoModule

\* the wrapper's promise settled as the definition's did
WrapperSettledAsDefinition ==
    /\ settled.wrapper = settled.definition
    /\ settled.definition.kind = "rejected" =>
           settled.wrapper.kind = "rejected"
           /\ settled.wrapper.value = settled.definition.value

\* the settling of the call leaves the store as the wrapper's grant made it
SettlingKeepsGrant ==
    (execPc = "running" /\ execPc' = "idle") =>
        /\ grants' = grants
        /\ Requested(execDef) # <<>> =>
               /\ HasGrant(grants', execDef.name)
               /\ GetGrant(grants', execDef.name).permissions = Requested(execDef)

\* C16: the adapter's execute wrapper does not catch failures: when the
\* definition's execute function rejects with error e the wrapper's call
\* rejects with the same e, with no conversion into a result value and no
\* retry, and the grant written before the call stays in the store.
C16_WrapperPropagates == []WrapperSettledAsDefinition /\ [][SettlingKeepsGrant]_vars

\* a call of a tool that declares permissions ended rejected, and the grant
\* of that tool is in the store
C16_Witness ==
    /\ execPc = "idle"
    /\ settled.definition = [kind |-> "rejected", value |-> "x"]
    /\ settled.wrapper = [kind |-> "rejected", value |-> "x"]
    /\ settled.requested # <<>>
    /\ HasGrant(grants, settled.name)
    /\ GetGrant(grants, settled.name).permissions = settled.requested

\* a call that got past its insert or its second update finds its pair in the
\* table, and no pair is in the table twice
OneRowPerPair ==
    /\ \A file \in AddFiles, repo \in Repositories :
           Cardinality(Matching(rows, file, repo)) <= 1
    /\ \A a \in AddCallers :
           adding[a].pc \in {"count", "cleanup", "done"} /\ ~adding[a].failed =>
               Cardinality(Matching(rows, adding[a].file, adding[a].repo)) = 1

NoAddFailed == \A a \in AddCallers : ~adding[a].failed

\* C19: concurrent addRecentFile calls for the same (file path, repository)
\* pair, in any interleaving of their update, insert and retry-update steps
\* against a table that keeps the pair unique, all end without error and
\* leave exactly one row for the pair.
C19_ConcurrentAddsOneRow == NoAddFailed /\ OneRowPerPair

\* two calls for one pair have ended, one by its insert and one by the update
\* after its refused insert, and the pair has one row
C19_Witness ==
    \E a, b \in AddCallers :
        /\ adding[a].pc = "done" /\ adding[a].path = "inserted"
        /\ adding[b].pc = "done" /\ adding[b].path = "retried"
        /\ adding[a].file = adding[b].file
        /\ Cardinality(Matching(rows, adding[a].file, "R1")) = 1

\* C20: the recent-files cap: after any sequence of addRecentFile calls that
\* each end before the next starts, with distinct timestamps, a repository
\* has at most 50 rows, and getRecentFiles(repo, limit) returns at most
\* min(limit, 50) rows (none for a limit below 0).
C20_CapHolds ==
    /\ AllIdle =>
           \A repo \in Repositories :
               Cardinality(RepoRows(rows, repo)) <= MaxRecentFiles
    /\ got # NoGot =>
           Cardinality(got.rows) <=
               (IF got.limit < 0 THEN 0 ELSE Min(got.limit, MaxRecentFiles))

(***************************************************************************)
(* Recent files of two repositories                                        *)
(***************************************************************************)
\* both repositories hold file 1, and R1 is at its cap
InitIsolation ==
    /\ OtherInit
    /\ \E n \in {MaxRecentFiles} :
           /\ rows = Prefilled(n) \cup {[id |-> n + 1, file |-> 1, repo |-> "R2", at |-> n + 1]}
           /\ nextId = n + 2
           /\ lastNow = n + 1
    /\ adding = [a \in AddCallers |-> NoAdd]
    /\ adds = 0
    /\ got = NoGot
    /\ clearing = NoClear

\* overlapping addRecentFile and clearRecentFiles calls on both repositories
IsolationNext ==
    \/ \E a \in {"a1", "a2"}, file \in {1, MaxRecentFiles + 1}, repo \in Repositories :
           AddStart(a, file, repo, lastNow + 1)
    \/ AddSteps
    \/ \E repo \in Repositories : ClearStart(repo)
    \/ \E ok \in BOOLEAN : ClearDelete(ok)
    \/ ClearReturn

SpecIsolation == InitIsolation /\ [][IsolationNext]_vars

\* the repositories whose operation takes the step
ActingRepositories ==
    {adding[a].repo : a \in {x \in AddCallers : adding'[x] # adding[x] /\ adding[x].pc # "idle"}}
        \cup (IF clearing' # clearing /\ clearing.pc # "idle" THEN {clearing.repo} ELSE {})

\* C21: a step of addRecentFile, of the cleanup it triggers, or of
\* clearRecentFiles on repository R leaves the rows of every other repository
\* as they were: none added, none removed, none changed, also when both
\* repositories hold the same file path.
C21_RepositoryIsolation ==
    [][\A repo \in Repositories :
          RepoRows(rows', repo) # RepoRows(rows, repo) => repo \in ActingRepositories]_vars

\* R1 was cleared after a row was inserted, and R2 still holds the file
\* that R1 held too
C21_Witness ==
    /\ clearing.pc = "done" /\ clearing.repo = "R1" /\ ~clearing.failed
    /\ RepoRows(rows, "R1") = {}
    /\ \E r \in rows : r.repo = "R2" /\ r.file = 1
    /\ nextId > MaxRecentFiles + 2

(***************************************************************************)
(* Not found at resolve time and in the require shim                       *)
(***************************************************************************)
\* a bare specifier that no cache entry, registration, built-in or internal
\* module matches
MatchesNothing(alias) ==
    /\ ~IsRelative(alias)
    /\ ~CacheHas(Segments(alias))
    /\ alias \notin DOMAIN moduleRegistry
    /\ alias \notin BuiltinLoaders
    /\ InternalLoaderIndex(alias) = 0

\* a resolution of such a specifier ends at once, with the not-found value
NotFoundIsReturned ==
    \A c \in Callers, alias \in BareSpecifiers :
        (MatchesNothing(alias) /\ call[c].pc = "idle" /\ call'[c].pc # "idle"
            /\ call'[c].alias = alias)
        => /\ call'[c].pc = "done"
           /\ call'[c].result.kind = "undefined"

\* no resolution of a bare specifier ends with an error
BareNeverRaises ==
    \A c \in Callers :
        (call[c].pc = "done" /\ call[c].alias \in BareSpecifiers)
        => call[c].result.kind # "error"

NotFoundMessage == "Custom tool import not found"

\* the message joins the results, or a call of execute fails, only in the
\* step in which a module's require shim takes the not-found value
RaisedByShimOnly ==
    /\ (/\ Len(results') > Len(results)
        /\ results'[Len(results')].error = NotFoundMessage)
       => /\ ld.pc = "require"
          /\ call[LoaderCaller].result.kind = "undefined"
          /\ call[LoaderCaller].alias = ld.cur.module.loadRequires[ld.cur.next]
          /\ results'[Len(results')].failed = "import"
    /\ (ran'.outcome = "error" /\ ran.outcome # "error")
       => /\ ran.pc = "require"
          /\ call[LoaderCaller].result.kind = "undefined"
          /\ call[LoaderCaller].alias = results[ran.index].module.executeRequires[ran.next]

\* C22: resolveCustomToolModule of a bare specifier that matches no cache
\* entry, no registered module, no built-in and no internal module completes
\* without raising and returns the not-found value; 'Custom tool import not
\* found' is raised only by a compiled module's require shim, in the step in
\* which that module evaluates the require call for that specifier.
C22_NotFoundIsValue ==
    /\ []BareNeverRaises
    /\ [][NotFoundIsReturned /\ RaisedByShimOnly]_vars

\* a file whose execute function requires the specifier loaded, and the call
\* of execute failed on the shim's error
C22_Witness ==
    /\ ran.outcome = "error"
    /\ results[ran.index].status = "loaded"
    /\ Unresolvable \in Range(results[ran.index].module.executeRequires)

(***************************************************************************)
(* Registered modules and the resolution cache                             *)
(***************************************************************************)
\* the call started after the last registration of its alias: the alias is
\* registered and was not registered again since the call began
StartedAfterRegistration(c) ==
    /\ call[c].pc = "done"
    /\ call[c].alias \in DOMAIN moduleRegistry
    /\ ~call[c].registered

\* C23: after registerCustomToolModule(alias, m), every later
\* resolveCustomToolModule(alias) returns m until alias is registered again,
\* also when alias names a built-in or internal module and when another value
\* for alias was cached by an earlier resolution.
C23_RegisteredTakesPrecedence ==
    \A c \in Callers :
        StartedAfterRegistration(c) => call[c].result = moduleRegistry[call[c].alias]

(***************************************************************************)
(* The name-keyed tool map                                                 *)
(***************************************************************************)
\* the positions of the entries that loaded
LoadedAt(rs) == {i \in 1..Len(rs) : rs[i].status = "loaded"}

\* the last loaded entry that carries the name
LastCarrying(rs, name) ==
    CHOOSE i \in LoadedAt(rs) :
        /\ rs[i].name = name
        /\ \A j \in LoadedAt(rs) : rs[j].name = name => j <= i

\* the map has the names of the loaded entries as its keys, and each name's
\* tool wraps the definition of the last entry carrying it
LastDefinitionWins(rs, tools) ==
    /\ DOMAIN tools = {rs[i].name : i \in LoadedAt(rs)}
    /\ \A name \in DOMAIN tools :
           /\ tools[name].name = name
           /\ tools[name].definition.filePath = rs[LastCarrying(rs, name)].filePath

\* every candidate file of the pass has its one entry in the list the map
\* was built from
EveryFileListed ==
    (ld.pc = "idle" /\ refreshed.given = results) =>
        \A k \in 1..Len(ld.listed) :
            Cardinality({i \in 1..Len(refreshed.given) :
                            /\ refreshed.given[i].kind = "file"
                            /\ refreshed.given[i].filePath = ld.listed[k]}) = 1

\* C24: the map built by adaptCustomTools, and the one built by
\* refreshCustomTools, has exactly one key per distinct tool name of the
\* loaded definitions, the value of each name comes from the last definition
\* in list order carrying it, and the flat result list still holds one entry
\* for every file, the overwritten ones included.
C24_LaterNameOverwrites ==
    refreshed.pc = "done" =>
        /\ LastDefinitionWins(refreshed.given, refreshed.adapted)
        /\ LastDefinitionWins(refreshed.given, refreshed.tools)
        /\ EveryFileListed

\* two files of one pass loaded under the same name; the map holds the
\* second, the list holds both
C24_Witness ==
    /\ refreshed.pc = "done"
    /\ \E i, j \in LoadedAt(refreshed.given) :
           /\ i < j
           /\ refreshed.given[i].name = refreshed.given[j].name
           /\ refreshed.given[i].filePath # refreshed.given[j].filePath
           /\ refreshed.adapted[refreshed.given[i].name].definition.filePath
                  = refreshed.given[j].filePath

(***************************************************************************)
(* Scan order                                                              *)
(***************************************************************************)
\* no result of the user directory stands before a result of the workspace
\* directory
WorkspaceBeforeUser ==
    \A i, j \in 1..Len(results) :
        (results[i].source = "workspace" /\ results[j].source = "user") => i < j

\* the results of one directory stand together
DirectoryResultsContiguous ==
    \A i, j, k \in 1..Len(results) :
        (i < k /\ k < j /\ results[i].filePath.dir = results[j].filePath.dir)
        => results[k].filePath.dir = results[i].filePath.dir

\* a result that joins the list is of the directory the loop stands on
ResultOfCurrentDirectory ==
    (ld.pc \notin {"idle", "done"} /\ Len(results') > Len(results)) =>
        /\ results'[Len(results')].source = ld.dirs[ld.d].source
        /\ results'[Len(results')].filePath.dir = ld.dirs[ld.d].path
        /\ ld'.d >= ld.d

\* C25: with no explicit directory the workspace tools directory is scanned
\* completely before the user-home tools directory: every result of source
\* 'workspace' precedes every result of source 'user', and the results of one
\* directory are contiguous in the result list.
C25_WorkspaceScannedFirst ==
    /\ [](ld.options.customDirectory = NoPath =>
             WorkspaceBeforeUser /\ DirectoryResultsContiguous)
    /\ [][ld.options.customDirectory = NoPath => ResultOfCurrentDirectory]_vars

\* a finished pass with two results of the workspace directory and then one
\* of the user directory
C25_Witness ==
    /\ ld.pc = "done"
    /\ ld.options.customDirectory = NoPath
    /\ Len(results) >= 3
    /\ results[1].source = "workspace"
    /\ results[2].source = "workspace"
    /\ results[Len(results)].source = "user"

(***************************************************************************)
(* Mutation of the shared maps                                             *)
(***************************************************************************)
\* a key that holds a value before and after the step holds the same value
KeepsValues(before, after) ==
    \A key \in DOMAIN before \cap DOMAIN after : after[key] = before[key]

\* no key leaves the map
KeepsKeys(before, after) == DOMAIN before \subseteq DOMAIN after

\* C26: the shared maps are only mutated by insert-if-absent and explicit
\* clear-by-key: once a key of the module registry, the resolution cache, the
\* playground cache or the permission store holds a value, no step replaces it
\* with a different value; the registry and the resolution cache, which have
\* no clear operation, never lose a key.
C26_InsertIfAbsentOnly ==
    [][/\ KeepsValues(moduleRegistry, moduleRegistry')
       /\ KeepsValues(moduleCache, moduleCache')
       /\ KeepsValues(playgroundModuleCache, playgroundModuleCache')
       /\ KeepsValues(grants, grants')
       /\ KeepsKeys(moduleRegistry, moduleRegistry')
       /\ KeepsKeys(moduleCache, moduleCache')]_vars

(***************************************************************************)
(* The two cache keys of a relative import                                 *)
(***************************************************************************)
\* the call is a resolution of a relative specifier from a base directory
RelativeCall(c) ==
    /\ call[c].alias \in RelativeSpecifiers
    /\ call[c].baseDir \in BaseDirs

OwnPath(c) == ResolveRelativePath(call[c].baseDir, call[c].alias)

\* a resolution that ends with a module leaves the module under the file key
\* of its own path and under the text of its specifier
CachedUnderBothKeys ==
    \A c \in RelativeCallers :
        (/\ call[c].pc # "done"
         /\ call'[c].pc = "done"
         /\ call'[c].alias \in RelativeSpecifiers
         /\ call'[c].baseDir \in BaseDirs
         /\ call'[c].result.kind = "file")
        => LET path == ResolveRelativePath(call'[c].baseDir, call'[c].alias)
           IN  /\ FileKey(path) \in DOMAIN moduleCache'
               /\ moduleCache'[FileKey(path)] = call'[c].result
               /\ Segments(call'[c].alias) \in DOMAIN moduleCache'
               /\ moduleCache'[Segments(call'[c].alias)] = call'[c].result

\* a resolution that begins when its path's module is cached, with no other
\* resolution in flight, ends with that module and compiles nothing
CachedPathIsReused ==
    \A c \in RelativeCallers :
        (/\ call[c].pc = "idle"
         /\ call'[c].pc # "idle"
         /\ \A o \in RelativeCallers \ {c} : call[o].pc \in {"idle", "done"}
         /\ call'[c].alias \in RelativeSpecifiers
         /\ call'[c].baseDir \in BaseDirs
         /\ FileKey(ResolveRelativePath(call'[c].baseDir, call'[c].alias))
                \in DOMAIN moduleCache)
        => (call'[c].pc = "done" =>
               call'[c].result =
                   moduleCache[FileKey(ResolveRelativePath(call'[c].baseDir,
                                                           call'[c].alias))])

\* resolutions of relative specifiers one after the other
SequentialRelativeNext ==
    \/ \E a \in RelativeSpecifiers, d \in BaseDirs : ResolveStart("r1", a, d)
    \/ ResolvePath("r1")
    \/ \E ok \in BOOLEAN : ResolveLoaded("r1", ok)
    \/ ResolveReturn("r1")
    \/ \E p \in HelperPaths : WriteFile(p)
    \/ \E p \in HelperPaths : RemoveFile(p)

SpecSequentialRelative == Init /\ [][SequentialRelativeNext]_vars

\* the specifiers of the runs in which resolutions fail and are tried again
RetriedSpecifiers == {"lodash", "./helper"}

\* the helper files those resolutions look for
RetriedPaths == {ResolveRelativePath(d, "./helper") : d \in BaseDirs}

\* resolutions that fail and are tried again while the host registers the
\* missing module and the helper files come and go
RetryNext ==
    \/ \E m \in ModuleRefs : RegisterCustomToolModule("lodash", m)
    \/ \E c \in RelativeCallers, a \in RetriedSpecifiers, d \in BaseDirs \cup {NoBaseDir} :
          ResolveStart(c, a, d)
    \/ \E c \in RelativeCallers : ResolvePath(c)
    \/ \E c \in RelativeCallers, ok \in BOOLEAN : ResolveLoaded(c, ok)
    \/ \E c \in RelativeCallers : ResolveReturn(c)
    \/ \E p \in RetriedPaths : WriteFile(p)
    \/ \E p \in RetriedPaths : RemoveFile(p)

SpecRetry == Init /\ [][RetryNext]_vars

\* load passes whose directory scans can fail
SpecScan == Init /\ [][ScanNext]_vars

\* the loader and the compiler with an initialization that can fail
SpecFailedInit == Init /\ [][FailedInitNext]_vars

\* load passes of a tool file that imports a helper
SpecRescan == Init /\ [][RescanNext]_vars

\* the result renderers of an adapted tool
SpecRender == Init /\ [][RenderNext]_vars

\* C27: after resolveCustomToolModule(s, d) succeeds for a relative specifier
\* the cache holds the module under 'file:' and the normalized absolute path
\* of s relative to d, and under the text s; a later sequential resolution of
\* a relative specifier, from any base directory, that normalizes to the same
\* path returns the identical module without compiling the file again.
C27_RelativeCachedUnderTwoKeys ==
    [][CachedUnderBothKeys /\ CachedPathIsReused]_vars

(***************************************************************************)
(* The directory a module's requires are resolved against                  *)
(***************************************************************************)
\* every require a module evaluated went to the resolver with the module's
\* own directory
OwnDirectoryPassed == \A r \in required : r.baseDir = r.dir

\* every relative require that gave a module gave the module of the file at
\* the specifier's path from the requiring module's own directory
OwnDirectoryResolved ==
    \A r \in required :
        (IsRelative(r.specifier) /\ r.result.kind = "file")
        => r.result.of = ResolveRelativePath(r.dir, r.specifier)

\* C28: every require evaluated inside a compiled module is resolved against
\* that module's own containing directory: a tool file against the directory
\* it was found in, a relatively imported helper against the helper's
\* directory, not the importing tool's.
C28_RequireUsesOwnDirectory == OwnDirectoryPassed /\ OwnDirectoryResolved

(***************************************************************************)
(* The simpleFetch of a playground: properties                             *)
(***************************************************************************)
\* the call in progress is of the simpleFetch that a resolver with 'net' and
\* this mock flag returned
CallThrough(mockFetch) ==
    /\ fetching.pc # "idle"
    /\ "net" \in fetching.by.permissions
    /\ fetching.by.mockFetch = mockFetch

\* the wrapper's timer and signal: a fired timer has aborted the signal and
\* the call ends failed; a call the live fetch ended by itself has its timer
\* cleared and its signal not aborted
TimerDiscipline ==
    /\ fetching.timer = "fired" =>
           /\ fetching.signal = "aborted"
           /\ fetching.pc = "done" => fetching.failed
    /\ (fetching.pc = "done" /\ fetching.timer # "fired") =>
           /\ fetching.timer = "cleared"
           /\ fetching.signal = "passed"

\* a cleared timer never fires, an ended call starts nothing
NoLateAbortNoRetry ==
    /\ fetching.timer = "cleared" => fetching'.timer \in {"cleared", "none"}
    /\ fetching.pc = "done" => fetching'.pc \in {"done", "idle"}
    /\ fetching.pc = "live" => fetching'.starts = fetching.starts

\* C29: for a playground with 'net' and no mock flag, each call of the
\* returned simpleFetch starts the live fetch exactly once, with an abort
\* signal; when the timeout elapses before the live fetch settles the signal
\* is aborted and the call fails; when the live fetch settles first the timer
\* is cancelled and the signal is never aborted; a failed call is not retried.
C29_TimeoutWrapper ==
    /\ [](CallThrough(FALSE) =>
             /\ fetching.starts = 1
             /\ fetching.signal # "none"
             /\ TimerDiscipline)
    /\ [][CallThrough(FALSE) => NoLateAbortNoRetry]_vars

\* C30: for a playground with 'net' and the mock flag, the returned
\* simpleFetch never performs the live fetch: every call answers ok = true,
\* status 200 and the body {mock: true, url}, so equal urls give equal
\* responses.
C30_MockNeverLive ==
    CallThrough(TRUE) =>
        /\ fetching.starts = 0
        /\ fetching.pc = "done"
        /\ fetching.response = [ok |-> TRUE, status |-> 200,
                                body |-> [mock |-> TRUE, url |-> fetching.url]]

(***************************************************************************)
(* Playground teardown                                                     *)
(***************************************************************************)
\* the step takes the resolver of the playground out of the registry
Unregisters(playgroundId) ==
    /\ playgroundId \in DOMAIN playgroundResolvers
    /\ playgroundId \notin DOMAIN playgroundResolvers'

\* the cache entries that resolvers of other playgrounds wrote stay
OthersEntriesStay(playgroundId) ==
    \A key \in DOMAIN playgroundModuleCache :
        pgOwner[key] # playgroundId =>
            /\ key \in DOMAIN playgroundModuleCache'
            /\ playgroundModuleCache'[key] = playgroundModuleCache[key]

\* C31: unregisterPlaygroundResolver(A) removes the resolver registered for A
\* and leaves the cache entries recorded under every other playground id
\* present, so that a later resolution there is served from the cache.
C31_TeardownSelective ==
    [][\A id \in PlaygroundIds : Unregisters(id) => OthersEntriesStay(id)]_vars

\* C32: when a loaded definition's 'name' is missing, empty or not a string,
\* the loader sets it to the file name with its '.ts' or '.tsx' extension
\* removed and records the result under that name; a non-empty string name is
\* kept; every result with status 'loaded' has a non-empty string name.
C32_NameDefaultsToFileName ==
    \A i \in 1..Len(results) :
        results[i].status = "loaded" =>
            LET given == NameOf(ResolveCustomToolDefinition(results[i].module.export))
                fileName == results[i].filePath.name
            IN  /\ results[i].name # <<>>
                /\ fileName[4] \in {".ts", ".tsx", ".TS", ".TSX"}
                /\ IF given.type = "string" /\ given.text # <<>>
                   THEN results[i].name = given.text
                   ELSE results[i].name = SubSeq(fileName, 1, 3)

\* a pass that loaded a definition whose name is the empty string from a '.ts'
\* file and a definition whose name is a number from a '.tsx' file
C32_Witness ==
    \E i, j \in 1..Len(results) :
        /\ results[i].status = "loaded"
        /\ results[i].module.export = "empty-name"
        /\ results[i].name = <<"a", "-", "tool">>
        /\ results[j].status = "loaded"
        /\ results[j].module.export = "number-name"
        /\ results[j].name = <<"b", "_", "Tool">>

\* the wrapper, once entered, goes to the call of definition.execute; the
\* call is made with the arguments the wrapper was given; the wrapper ends
\* only after exactly one call
OneCallWithGivenArguments ==
    /\ (execPc = "idle" /\ execPc' # "idle") => execPc' = "call"
    /\ (execPc = "call" /\ execPc' # "call") =>
           /\ execPc' = "running"
           /\ execDef'.passed = [params |-> execDef.params, context |-> execDef.context]
    /\ (execPc = "running" /\ execPc' # "running") =>
           /\ execPc' = "idle"
           /\ execDef.calls = 1
           /\ settled'.wrapper = settled'.definition

\* whatever the store holds, the wrapper of every definition can be entered
EveryCallProceeds ==
    Idle => \A d \in Definitions, given \in ExecuteArguments :
                ENABLED ExecuteEnter(d, clock, given.params, given.context)

\* C33: the adapter has no denial path: for every state of the permission
\* store and every declared permission list, the execute wrapper calls the
\* definition's execute exactly once with the params and context it was
\* given; no outcome of executing an adapted tool is a permission denial.
C33_NoDenialPath == []EveryCallProceeds /\ [][OneCallWithGivenArguments]_vars

\* the wrapper of a tool that declares a permission was entered, its grant
\* dropped nothing the store held, and it has made its one call with the
\* second params and context
C33_Witness ==
    /\ execPc = "running"
    /\ Requested(execDef) # <<>>
    /\ lastOp[execDef.name] = [op |-> "grant", permissions |-> Requested(execDef),
                               dropped |-> FALSE]
    /\ execDef.calls = 1
    /\ execDef.passed = [params |-> "p2", context |-> "k2"]

\* the result is an object with success === false or with an 'error' field
FailureResult(result) ==
    /\ result.type = "object"
    /\ (result.success = "false" \/ result.error # Undefined)

\* C34: fallback result rendering (definition without its own Result hook):
\* the renderer shows a failure view exactly when the result is an object
\* with success === false or with an 'error' field, and otherwise a success
\* view whose message is the result itself when it is a string and the
\* generic 'Custom tool executed' message when it is not.
C34_FallbackRendering ==
    (rendered # NoRender /\ ~rendered.hook) =>
        /\ rendered.view.kind = "fallback"
        /\ rendered.view.success = ~FailureResult(rendered.result)
        /\ ~FailureResult(rendered.result) =>
               rendered.view.message =
                   IF rendered.result.type = "string" THEN rendered.result.text
                   ELSE "Custom tool executed"

\* the scan of the current directory fails outside the load steps of a file
ScanFails ==
    \/ \E l \in PassListings : LoadReadDir(l, FALSE)
    \/ LoadExistsFails
    \/ LoadJoinFails

\* a failed scan adds one error result named by the directory after the
\* results the pass has so far, and the loop goes on to the next directory
ScanFailureReported ==
    ScanFails =>
        /\ Len(results') = Len(results) + 1
        /\ IsPrefix(results, results')
        /\ LET r == results'[Len(results')]
           IN  /\ r.kind = "dir" /\ r.status = "error" /\ r.error # ""
               /\ r.name = ld.dirs[ld.d].path
        /\ IF ld.d < Len(ld.dirs)
           THEN ld'.pc = "dir" /\ ld'.d = ld.d + 1
           ELSE ld'.pc = "done"

\* a pass ends only after its last directory, with at most one result that
\* stands for each directory
EveryDirectoryTaken ==
    /\ ld.pc = "done" => ld.d = Len(ld.dirs)
    /\ \A i \in 1..Len(ld.dirs) : Len(DirResults(ld.dirs[i].path)) <= 1

\* the results of a directory's files stay in the list through every later
\* step of the pass, the directory's own failure included
EarlierFilesKept ==
    ld.pc # "idle" =>
        \A i \in 1..Len(results) :
            results[i].kind = "file" => i <= Len(results') /\ results'[i] = results[i]

\* C35: a failure while listing an existing directory, or any failure in that
\* directory's scan outside a file's own load steps, adds one result with
\* status 'error' named by the directory path, keeps the results already
\* recorded for that directory's earlier files, and does not prevent the
\* remaining directories from being scanned.
C35_ScanFailureNotFatal ==
    []EveryDirectoryTaken /\ [][ScanFailureReported /\ EarlierFilesKept]_vars

\* a finished pass: a file of the first directory loaded, the scan of that
\* directory then failed, and a file of the second directory loaded
C35_Witness ==
    /\ ld.pc = "done"
    /\ Len(ld.dirs) = 2
    /\ Len(results) = 3
    /\ results[1].status = "loaded" /\ results[1].filePath.dir = ld.dirs[1].path
    /\ results[2].kind = "dir" /\ results[2].name = ld.dirs[1].path
    /\ results[2].error = "join failed"
    /\ results[3].status = "loaded" /\ results[3].filePath.dir = ld.dirs[2].path

\* a rejected promise stays memoized as it is, and the initialization routine
\* is not run again
RejectionStays ==
    swcReady \in Rejected => swcReady' = swcReady /\ swcInits' = swcInits

\* while the promise is rejected no caller transforms, every call that has
\* ended failed with the promise's error, and swc.default ran at most once
EveryCompileFails ==
    swcReady \in Rejected =>
        /\ swcInits <= 1
        /\ \A k \in CompileCallers :
               /\ compiling[k].pc # "transform"
               /\ compiling[k].pc = "done" =>
                      compiling[k].failed /\ compiling[k].error = RejectionOf(swcReady)

\* a file whose result joins the list while the promise is rejected gets an
\* error result with the promise's error
EveryFileFails ==
    (swcReady \in Rejected /\ Len(results') > Len(results)) =>
        LET r == results'[Len(results')]
        IN  /\ Len(results') = Len(results) + 1
            /\ r.kind = "file"
            /\ r.status = "error"
            /\ r.error = RejectionOf(swcReady)
            /\ r.filePath = ld.cur.filePath

\* C36: a failed compiler initialization is permanent: if the first
\* initialization of the transpiler fails, every later compileCustomTool call
\* in the process fails with that same error and the initialization is never
\* attempted again, so every candidate file of every later load pass gets an
\* error result.
C36_FailedInitPermanent ==
    []EveryCompileFails /\ [][RejectionStays /\ EveryFileFails]_vars

\* after swc.default rejected, a direct call has failed with that error and a
\* pass has ended with an error result for each of its two files
C36_Witness ==
    /\ swcReady = "rejected"
    /\ compiling["k1"].pc = "done" /\ compiling["k1"].error = "init failed"
    /\ ld.pc = "done"
    /\ Len(results) = 2
    /\ \A i \in 1..2 : results[i].status = "error" /\ results[i].error = "init failed"

\* a resolution ended in this step without a module: not found, or raised
FailsNow(c) ==
    /\ call[c].pc # "done"
    /\ call'[c].pc = "done"
    /\ call'[c].result.kind \in {"undefined", "error"}

\* every entry of the cache holds a module: one that was registered, or the
\* product of a load that went through
CacheHoldsModules ==
    \A key \in DOMAIN moduleCache :
        \/ moduleCache[key].kind = "registered" /\ moduleCache[key].of[1] \in ModuleRefs
        \/ /\ moduleCache[key].kind = "file"
           /\ moduleCache[key].id \in 1..loads
           /\ moduleCache[key].of \in HelperPaths

\* a resolution that fails leaves the cache as it was, and it fails only while
\* its cause lasts: the alias is in no registry, the call has no base
\* directory, the file is not there, or the file does not compile
FailureLeavesNoTrace ==
    \A c \in RelativeCallers :
        FailsNow(c) =>
            /\ moduleCache' = moduleCache
            /\ call'[c].alias \notin DOMAIN moduleRegistry
            /\ call'[c].result = UndefinedModule => ~IsRelative(call'[c].alias)
            /\ call'[c].result = Thrown("Relative import requires base directory") =>
                   call'[c].baseDir = NoBaseDir
            /\ call'[c].result = Thrown("File not found") => call'[c].path \notin files

\* C37: the resolution cache never records a failure: each entry of the module
\* cache holds a value that was registered or successfully loaded; a
\* resolution that yielded not-found or raised an error leaves the cache
\* unchanged, so the same specifier is resolved from scratch on the next call
\* and succeeds once the module is registered or the file exists.
C37_CacheNeverRecordsFailure == []CacheHoldsModules /\ [][FailureLeavesNoTrace]_vars

\* a resolution of './helper' raised for the missing file and left the cache
\* empty; the file was written, and the next resolution of the same specifier
\* from the same directory loaded it
C37_Witness ==
    /\ call["r1"].pc = "done" /\ call["r1"].alias = "./helper"
    /\ call["r1"].result = Thrown("File not found")
    /\ call["r2"].pc = "done" /\ call["r2"].alias = "./helper"
    /\ call["r2"].baseDir = call["r1"].baseDir
    /\ call["r2"].result = Module("file", call["r1"].path, 1)
    /\ ~call["r2"].overlap
    /\ DOMAIN moduleCache = {Segments("./helper"), FileKey(call["r1"].path)}

\* a pass that has ended holds, for every candidate file it listed, the text
\* it read in this pass and, for a loaded file, the module compiled from it
ToolFilesReadAgain ==
    (ld.pc = "done" /\ ld.options # NoOptions) =>
        /\ Len(results) = Len(ld.listed)
        /\ \A i \in 1..Len(results) :
               /\ results[i].filePath = ld.listed[i]
               /\ results[i].content \in HelperContents
               /\ results[i].status = "loaded" =>
                      results[i].module = Compile(results[i].content)

\* the helper was loaded at most once, and whoever resolves it gets the one
\* module the cache holds for its file
HelperLoadedOnce ==
    \A p \in RescanPaths :
        /\ loads <= 1
        /\ FileKey(p) \in DOMAIN moduleCache =>
               /\ loads = 1
               /\ moduleCache[FileKey(p)] = Module("file", p, 1)
        /\ (call[LoaderCaller].pc = "done" /\ call[LoaderCaller].result.kind = "file") =>
               /\ FileKey(p) \in DOMAIN moduleCache
               /\ call[LoaderCaller].result = moduleCache[FileKey(p)]

\* a pass starts with no result of an earlier pass; an entry of the cache stays
\* as it is through passes and rewrites, and once the helper is cached no
\* file is loaded and compiled by the resolver again
CachedHelperStays ==
    /\ (ld.pc = "idle" /\ ld'.pc # "idle") => results' = <<>>
    /\ \A key \in DOMAIN moduleCache :
           key \in DOMAIN moduleCache' /\ moduleCache'[key] = moduleCache[key]
    /\ (\E p \in RescanPaths : FileKey(p) \in DOMAIN moduleCache) => loads' = loads

\* C38: rescan freshness: every load pass reads and compiles each candidate
\* tool file again, but a relatively imported helper file that was resolved
\* once is served from the process-wide cache on every later load pass and is
\* never read or compiled again, even when its content on disk has changed
\* between passes.
C38_RescanFreshness ==
    [](ToolFilesReadAgain /\ HelperLoadedOnce) /\ [][CachedHelperStays]_vars

\* a pass has ended with the tool file loaded from a text other than the one
\* the pass before it read; the helper was rewritten before this pass and after
\* its only load, and the cache still holds the module of that load
C38_Witness ==
    /\ ld.pc = "done"
    /\ Len(results) = 1 /\ results[1].status = "loaded"
    /\ refreshed.pc = "done"
    /\ Len(refreshed.given) = 1 /\ refreshed.given[1].status = "loaded"
    /\ refreshed.given[1].content # results[1].content
    /\ \E p \in RescanPaths :
           /\ edits[p] = [version |-> 1, loads |-> 1]
           /\ moduleCache[FileKey(p)] = Module("file", p, 1)
    /\ loads = 1

\* this step is grantPermission(t, P), revokePermission(t), or the entry of
\* the execute wrapper of an adapted tool named t; the permissions and the
\* time of the operation are those the step has written down
ActsOn(t) ==
    \/ Grant(t, lastOp'[t].permissions, clock')
    \/ GrantDuringExecute(t, lastOp'[t].permissions, clock')
    \/ Revoke(t)
    \/ RevokeDuringExecute(t)
    \/ /\ execPc = "idle" /\ execPc' = "call"
       /\ ExecuteEnter([name |-> t, permissions |-> execDef'.permissions], clock',
                       execDef'.params, execDef'.context)

\* every tool but t has the grant record it had, or none as before
OtherGrantsKept(t) ==
    \A u \in ToolNames \ {t} :
        /\ HasGrant(grants', u) <=> HasGrant(grants, u)
        /\ HasGrant(grants, u) => grants'[u] = grants[u]

\* C39: grantPermission(t, P), revokePermission(t) and the execute wrapper
\* of an adapted tool t change at most the grant record of t: every other
\* tool's grant record, and its absence, is the same before and after.
C39_OnlyOwnGrantChanges ==
    [][/\ \A t \in ToolNames : ActsOn(t) => OtherGrantsKept(t)
       /\ (execPc # "idle" /\ execPc' # execPc) => grants' = grants]_vars

\* the wrapper of tool 't' has replaced the grant of 't' while the grant of
\* 'u' stands as it was made
C39_Witness ==
    /\ execPc = "call"
    /\ execDef.name = "t"
    /\ Requested(execDef) # <<>>
    /\ lastOp["t"].op = "grant" /\ lastOp["t"].dropped
    /\ HasGrant(grants, "u") /\ grants["u"].permissions # <<>>
    /\ grants["u"].permissions # grants["t"].permissions
    /\ lastOp["u"].op = "grant"

====
